---- MODULE Spec2Model ----
(***************************************************************************)
(* Model of asfsmd's partial remote-ZIP extraction engine                  *)
(* (src/asfsmd/core.py): pattern generation, the local completeness check  *)
(* and the per-URL download loop.                                          *)
(*                                                                         *)
(* Names and patterns are strings, read character by character, so that    *)
(* glob matching and path splitting are computed and not assumed.  A path  *)
(* is the sequence of its components.  A file's content is a sequence of   *)
(* bytes; the bytes of a manifest are XML tokens.                          *)
(***************************************************************************)
EXTENDS Integers, Sequences, FiniteSets, TLC

(***************************************************************************)
(* Bounds of the model.                                                    *)
(***************************************************************************)
\* longest component payload, in bytes
MaxLen == 3
\* largest block_size, in bytes
MaxBlock == 2
\* number of consecutive calls of download_components_from_urls
MaxRuns == 2
\* the damages a checked product takes
MaxEdits == 1
\* longest list of patterns a pure function is called with
MaxPatterns == 2
\* number of files load_product_lists is called with
MaxFiles == 3

(***************************************************************************)
(* Python values.                                                          *)
(***************************************************************************)
\* None where a str is expected
NoneStr == "<None>"
\* None where a list of str is expected
NonePatterns == <<NoneStr>>

Min(a, b) == IF a <= b THEN a ELSE b

RECURSIVE Concat(_)
\* b"".join(chunks)
Concat(ss) == IF ss = <<>> THEN <<>> ELSE Head(ss) \o Concat(Tail(ss))

Range(s) == {s[j] : j \in 1..Len(s)}

(***************************************************************************)
(* Shell-style matching as the regular expression of fnmatch.translate     *)
(* does it: the whole name must match; '*' matches any run of characters,  *)
(* '/' included, '?' exactly one character.                                *)
(***************************************************************************)
RECURSIVE GlobAt(_, _, _, _)
\* does name, from its character a on, match pat from its character b on
GlobAt(name, pat, a, b) ==
    IF b > Len(pat) THEN a > Len(name)
    ELSE IF SubSeq(pat, b, b) = "*"
         THEN \E a2 \in a..(Len(name) + 1) : GlobAt(name, pat, a2, b + 1)
    ELSE /\ a <= Len(name)
         /\ SubSeq(pat, b, b) = "?" \/ SubSeq(pat, b, b) = SubSeq(name, a, a)
         /\ GlobAt(name, pat, a + 1, b + 1)

Glob(name, pat) == GlobAt(name, pat, 1, 1)

(***************************************************************************)
(* make_patterns (core.py:74-109)                                          *)
(***************************************************************************)
\* make_patterns without core.py:87-88: None is formatted into the patterns
MakePatternsNoneKept(beam0, pol0, cal, noise, rfi, data) ==
    LET beam == IF beam0 = NoneStr THEN "None" ELSE beam0
        pol == IF pol0 = NoneStr THEN "None" ELSE pol0
        head == "S1*.SAFE/annotation"
        tail == "s1?-" \o beam \o "-???-" \o pol \o "-*.xml"
    IN  <<"S1*.SAFE/manifest.safe">>
        \o <<head \o "/" \o tail>>
        \o (IF cal THEN <<head \o "/calibration/calibration-" \o tail>> ELSE <<>>)
        \o (IF noise THEN <<head \o "/calibration/noise-" \o tail>> ELSE <<>>)
        \o (IF rfi THEN <<head \o "/rfi/rfi-" \o tail>> ELSE <<>>)
        \o (IF data
            THEN << "S1*.SAFE/measurement/s1?-" \o beam \o "-???-" \o pol \o "-*.tiff",
                    "S1*.SAFE/s1?-" \o beam \o "-???-?-" \o pol \o "-*.dat" >>
            ELSE <<>>)

\* make_patterns with the test of core.py:100 widened: cal adds the noise
\* pattern too
MakePatternsNoiseWithCal(beam0, pol0, cal, noise, rfi, data) ==
    LET beam == IF beam0 = NoneStr THEN "*" ELSE beam0
        pol == IF pol0 = NoneStr THEN "??" ELSE pol0
        head == "S1*.SAFE/annotation"
        tail == "s1?-" \o beam \o "-???-" \o pol \o "-*.xml"
    IN  <<"S1*.SAFE/manifest.safe">>
        \o <<head \o "/" \o tail>>
        \o (IF cal THEN <<head \o "/calibration/calibration-" \o tail>> ELSE <<>>)
        \o (IF (noise \/ cal) THEN <<head \o "/calibration/noise-" \o tail>> ELSE <<>>)
        \o (IF rfi THEN <<head \o "/rfi/rfi-" \o tail>> ELSE <<>>)
        \o (IF data
            THEN << "S1*.SAFE/measurement/s1?-" \o beam \o "-???-" \o pol \o "-*.tiff",
                    "S1*.SAFE/s1?-" \o beam \o "-???-?-" \o pol \o "-*.dat" >>
            ELSE <<>>)

\* make_patterns appending the manifest pattern once more with the data
\* patterns
MakePatternsManifestAgain(beam0, pol0, cal, noise, rfi, data) ==
    LET beam == IF beam0 = NoneStr THEN "*" ELSE beam0
        pol == IF pol0 = NoneStr THEN "??" ELSE pol0
        head == "S1*.SAFE/annotation"
        tail == "s1?-" \o beam \o "-???-" \o pol \o "-*.xml"
    IN  <<"S1*.SAFE/manifest.safe">>
        \o <<head \o "/" \o tail>>
        \o (IF cal THEN <<head \o "/calibration/calibration-" \o tail>> ELSE <<>>)
        \o (IF noise THEN <<head \o "/calibration/noise-" \o tail>> ELSE <<>>)
        \o (IF rfi THEN <<head \o "/rfi/rfi-" \o tail>> ELSE <<>>)
        \o (IF data
            THEN << "S1*.SAFE/measurement/s1?-" \o beam \o "-???-" \o pol \o "-*.tiff",
                    "S1*.SAFE/s1?-" \o beam \o "-???-?-" \o pol \o "-*.dat" >>
                 \o <<"S1*.SAFE/manifest.safe">>
            ELSE <<>>)

\* make_patterns whose .tiff pattern of core.py:106 takes every polarisation
MakePatternsDataAnyPol(beam0, pol0, cal, noise, rfi, data) ==
    LET beam == IF beam0 = NoneStr THEN "*" ELSE beam0
        pol == IF pol0 = NoneStr THEN "??" ELSE pol0
        head == "S1*.SAFE/annotation"
        tail == "s1?-" \o beam \o "-???-" \o pol \o "-*.xml"
    IN  <<"S1*.SAFE/manifest.safe">>
        \o <<head \o "/" \o tail>>
        \o (IF cal THEN <<head \o "/calibration/calibration-" \o tail>> ELSE <<>>)
        \o (IF noise THEN <<head \o "/calibration/noise-" \o tail>> ELSE <<>>)
        \o (IF rfi THEN <<head \o "/rfi/rfi-" \o tail>> ELSE <<>>)
        \o (IF data
            THEN << "S1*.SAFE/measurement/s1?-" \o beam \o "-???-" \o "??" \o "-*.tiff",
                    "S1*.SAFE/s1?-" \o beam \o "-???-?-" \o pol \o "-*.dat" >>
            ELSE <<>>)

make_patterns(beam0, pol0, cal, noise, rfi, data) ==
    LET beam == IF beam0 = NoneStr THEN "*" ELSE beam0
        pol == IF pol0 = NoneStr THEN "??" ELSE pol0
        head == "S1*.SAFE/annotation"
        tail == "s1?-" \o beam \o "-???-" \o pol \o "-*.xml"
    IN  <<"S1*.SAFE/manifest.safe">>
        \o <<head \o "/" \o tail>>
        \o (IF cal THEN <<head \o "/calibration/calibration-" \o tail>> ELSE <<>>)
        \o (IF noise THEN <<head \o "/calibration/noise-" \o tail>> ELSE <<>>)
        \o (IF rfi THEN <<head \o "/rfi/rfi-" \o tail>> ELSE <<>>)
        \o (IF data
            THEN << "S1*.SAFE/measurement/s1?-" \o beam \o "-???-" \o pol \o "-*.tiff",
                    "S1*.SAFE/s1?-" \o beam \o "-???-?-" \o pol \o "-*.dat" >>
            ELSE <<>>)

\* make_patterns()
DefaultPatterns == make_patterns("*", "??", FALSE, FALSE, FALSE, FALSE)

(***************************************************************************)
(* urllib.parse.urlparse(url).path                                         *)
(***************************************************************************)
RECURSIVE Find(_, _, _)
\* s.find(sub) + 1 searched from index j, 0 when sub does not occur
Find(s, sub, j) ==
    IF j + Len(sub) - 1 > Len(s) THEN 0
    ELSE IF SubSeq(s, j, j + Len(sub) - 1) = sub THEN j
    ELSE Find(s, sub, j + 1)

\* s[:j-1] when j > 0, s otherwise
CutAt(s, j) == IF j > 0 THEN SubSeq(s, 1, j - 1) ELSE s

UrlPath(url) ==
    LET nofrag == CutAt(url, Find(url, "#", 1))
        noquery == CutAt(nofrag, Find(nofrag, "?", 1))
        sch == Find(noquery, "://", 1)
        rest == IF sch > 0 THEN SubSeq(noquery, sch + 3, Len(noquery)) ELSE noquery
        sl == Find(rest, "/", 1)
    IN  IF sch = 0 THEN rest
        ELSE IF sl = 0 THEN ""
        ELSE SubSeq(rest, sl, Len(rest))

(***************************************************************************)
(* The text the model runs on: two products, A and B, each behind a url.   *)
(***************************************************************************)
\* the outdir argument
OutDir == <<"out">>

UrlA == "https://asf/SLC/S1A.zip?x=1"
UrlB == "https://asf/SLC/S1B.zip"

\* the components of the products, relative to the product directory
AnnA == "annotation/s1a-iw1-slc-vv-1.xml"
MeasA == "measurement/s1a-iw1-slc-vv-1.tiff"
AnnB == "annotation/s1b-iw2-slc-vh-1.xml"

\* the values of the urls argument
UrlLists == { <<UrlA>>, <<UrlA, UrlB>>, <<UrlB, UrlA>>, <<UrlA, UrlA>> }

\* the values of the patterns argument
PatternLists ==
    { NonePatterns,
      <<>>,
      make_patterns("*", "??", FALSE, FALSE, FALSE, TRUE),
      <<"S1*.SAFE/annotation/*.xml">> }

(***************************************************************************)
(* pathlib.PurePosixPath: a path is the sequence of its components, an     *)
(* absolute path starts with the component "/".                            *)
(***************************************************************************)
RECURSIVE SplitOn(_, _, _, _)
\* s.split(sep) from the character j on, the component being read having
\* started at the character start
SplitOn(s, sep, start, j) ==
    IF j > Len(s) THEN <<SubSeq(s, start, Len(s))>>
    ELSE IF SubSeq(s, j, j) = sep
         THEN <<SubSeq(s, start, j - 1)>> \o SplitOn(s, sep, j + 1, j + 1)
    ELSE SplitOn(s, sep, start, j + 1)

\* the root a path string starts with: "/" or nothing
RootOf(s) == IF s # "" /\ Head(s) = "/" THEN <<"/">> ELSE <<>>

\* pathlib.PurePath(s).parts: empty and "." components are dropped, ".." is kept
PartsOf(s) ==
    RootOf(s) \o SelectSeq(SplitOn(s, "/", 1, 1), LAMBDA c : c # "" /\ c # ".")

Parts(s) == PartsOf(s)

\* fnmatch.fnmatchcase(name, pat)
fnmatchcase(name, pat) == Glob(name, pat)

\* fnmatch.fnmatch(name, pat): os.path.normcase changes nothing on POSIX
fnmatch(name, pat) == fnmatchcase(name, pat)

\* base / other: an absolute right operand replaces the left one
JoinPath(base, other) ==
    IF other # <<>> /\ Head(other) = "/" THEN other ELSE base \o other

\* path.parent and path.name
Parent(p) == IF p = <<>> \/ p = <<"/">> THEN p ELSE SubSeq(p, 1, Len(p) - 1)
BaseName(p) == IF p = <<>> \/ p = <<"/">> THEN "" ELSE p[Len(p)]

\* the prefixes of a path, the path itself included
Ancestors(p) == {SubSeq(p, 1, n) : n \in 1..Len(p)}

RECURSIVE LastDot(_)
\* name.rfind(".") + 1, 0 when there is no dot
LastDot(name) ==
    IF name = "" THEN 0
    ELSE IF SubSeq(name, Len(name), Len(name)) = "." THEN Len(name)
    ELSE LastDot(SubSeq(name, 1, Len(name) - 1))

\* PurePath.suffix of a final component
Suffix(name) ==
    LET d == LastDot(name)
    IN  IF 1 < d /\ d < Len(name) THEN SubSeq(name, d, Len(name)) ELSE ""

\* path.with_suffix(suffix): the last component's suffix is replaced
WithSuffix(p, suffix) ==
    LET name == BaseName(p)
        stem == SubSeq(name, 1, Len(name) - Len(Suffix(name)))
    IN  Append(Parent(p), stem \o suffix)

\* PurePath.match(pattern) for a relative pattern: the pattern's components are
\* matched, with fnmatch, against the last components of the path; for an
\* absolute pattern the numbers of components must agree
PathMatch(p, pattern) ==
    LET pp == Parts(pattern)
        rooted == pp # <<>> /\ Head(pp) = "/"
        n == Len(pp)
        off == Len(p) - n
    IN  /\ pp # <<>>
        /\ n <= Len(p)
        /\ rooted => (off = 0 /\ Head(p) = "/")
        /\ \A j \in 1..n : (rooted /\ j = 1) \/ fnmatchcase(p[off + j], pp[j])

(***************************************************************************)
(* File contents.  A byte of an ordinary file is [byte |-> n].  A manifest *)
(* is the token sequence  XmlOpen, byteStream elements, XmlClose ; a       *)
(* byteStream element is a record with the fields href (fileLocation),     *)
(* size, checksumName and checksum (the element's text), where a field     *)
(* that the element lacks is absent from the record.                       *)
(***************************************************************************)
Byte(n) == [byte |-> n]
XmlOpen == [tag |-> "<XFDU><dataObjectSection>"]
XmlClose == [tag |-> "</dataObjectSection></XFDU>"]

IsByteStream(tok) == "tag" \notin DOMAIN tok /\ "byte" \notin DOMAIN tok

\* etree.parse succeeds: the document is complete and well nested
WellFormed(content) ==
    /\ Len(content) >= 2
    /\ content[1] = XmlOpen
    /\ content[Len(content)] = XmlClose
    /\ \A j \in 2..(Len(content) - 1) : IsByteStream(content[j])

\* xmldoc.iterfind("./dataObjectSection/dataObject/byteStream")
ByteStreams(content) == SubSeq(content, 2, Len(content) - 1)

\* fd.read(n) at offset pos: at most n bytes, everything left when n < 0
Read(content, pos, n) ==
    IF n < 0 THEN SubSeq(content, pos + 1, Len(content))
    ELSE SubSeq(content, pos + 1, Min(pos + n, Len(content)))

RECURSIVE ReadChunks(_, _, _)
\* list(iter(functools.partial(fd.read, n), b"")): the chunks up to the first
\* empty read
ReadChunks(content, pos, n) ==
    LET data == Read(content, pos, n)
    IN  IF data = <<>> THEN <<>>
        ELSE <<data>> \o ReadChunks(content, pos + Len(data), n)

\* hashlib.md5 fed with the chunks, then hexdigest(): a digest stands for the
\* byte string it was computed over (no collisions)
Md5Hex(chunks) == [md5 |-> Concat(chunks)]

Lower == "abcdefghijklmnopqrstuvwxyz"
Upper == "ABCDEFGHIJKLMNOPQRSTUVWXYZ"

UpperChar(c) ==
    IF \E j \in 1..26 : SubSeq(Lower, j, j) = c
    THEN LET j == CHOOSE j \in 1..26 : SubSeq(Lower, j, j) = c IN SubSeq(Upper, j, j)
    ELSE c

RECURSIVE StrUpper(_)
\* str.upper()
StrUpper(s) == IF s = "" THEN "" ELSE UpperChar(Head(s)) \o StrUpper(Tail(s))

(***************************************************************************)
(* The local file system: dirs is the set of directories and files maps    *)
(* each regular file to its content.  Paths are relative to the current    *)
(* directory, which exists.                                                *)
(***************************************************************************)
IsDir(dirs, p) == p = <<>> \/ p \in dirs
IsFile(files, p) == p \in DOMAIN files
Exists(dirs, files, p) == IsDir(dirs, p) \/ IsFile(files, p)

\* targetdir.mkdir(exist_ok=True, parents=True) raises when a component of
\* the path is a regular file
MkdirRaises(files, p) == \E a \in Ancestors(p) : IsFile(files, a)
Mkdir(dirs, p) == dirs \cup Ancestors(p)

(***************************************************************************)
(* _is_product_complete (core.py:112-162).  The result is a record:        *)
(* raised tells whether an exception escaped, value is the returned        *)
(* boolean, reads lists the files that were opened, in order.              *)
(***************************************************************************)
Return(v, reads) == [raised |-> FALSE, value |-> v, reads |-> reads]
Raise(reads) == [raised |-> TRUE, value |-> FALSE, reads |-> reads]

\* MatchAny that selects every byteStream element
MatchAnyAlways(p, patterns) == "match"

RECURSIVE MatchAny(_, _)
\* the loop over the patterns (core.py:133-140): "match", "nomatch", or
\* "raise" when PurePath.match meets an empty pattern
MatchAny(p, patterns) ==
    IF patterns = <<>> THEN "nomatch"
    ELSE IF Parts(Head(patterns)) = <<>> THEN "raise"
    ELSE IF PathMatch(p, Head(patterns)) THEN "match"
    ELSE MatchAny(p, Tail(patterns))

\* the patterns the check works with (core.py:130)
EffectivePatterns(patterns) ==
    IF patterns = NonePatterns \/ patterns = <<>> THEN DefaultPatterns ELSE patterns

\* CheckComponent without the comparison of the digests (core.py:159-160)
CheckComponentNoSum(files, path, elem, block_size) ==
    LET component_path == JoinPath(path, Parts(elem.href))
    IN  IF ~IsFile(files, component_path) THEN "false"
        ELSE IF "size" \notin DOMAIN elem THEN "raise"
        ELSE IF Len(files[component_path]) # elem.size THEN "false"
        ELSE IF "checksumName" \notin DOMAIN elem THEN "raise"
        ELSE IF StrUpper(elem.checksumName) # "MD5" THEN "false"
        ELSE "ok"

\* CheckComponent without the test of the checksum name (core.py:151-153)
CheckComponentAnySum(files, path, elem, block_size) ==
    LET component_path == JoinPath(path, Parts(elem.href))
    IN  IF ~IsFile(files, component_path) THEN "false"
        ELSE IF "size" \notin DOMAIN elem THEN "raise"
        ELSE IF Len(files[component_path]) # elem.size THEN "false"
        ELSE IF "checksumName" \notin DOMAIN elem THEN "raise"
        ELSE IF "checksum" \notin DOMAIN elem THEN "false"
        ELSE IF Md5Hex(ReadChunks(files[component_path], 0, block_size))
                    # elem.checksum THEN "false"
        ELSE "ok"

\* CheckComponent that asks no more of a component than the extraction loop
\* asks of an entry (core.py:236): that its file exists
CheckComponentExistsOnly(files, path, elem, block_size) ==
    LET component_path == JoinPath(path, Parts(elem.href))
    IN  IF ~IsFile(files, component_path) THEN "false"
        ELSE IF "size" \notin DOMAIN elem THEN "raise"
        ELSE IF "checksumName" \notin DOMAIN elem THEN "raise"
        ELSE IF StrUpper(elem.checksumName) # "MD5" THEN "false"
        ELSE "ok"

\* CheckComponent without the upper() of core.py:151
CheckComponentCaseSensitive(files, path, elem, block_size) ==
    LET component_path == JoinPath(path, Parts(elem.href))
    IN  IF ~IsFile(files, component_path) THEN "false"
        ELSE IF "size" \notin DOMAIN elem THEN "raise"
        ELSE IF Len(files[component_path]) # elem.size THEN "false"
        ELSE IF "checksumName" \notin DOMAIN elem THEN "raise"
        ELSE IF elem.checksumName # "MD5" THEN "false"
        ELSE IF "checksum" \notin DOMAIN elem THEN "false"
        ELSE IF Md5Hex(ReadChunks(files[component_path], 0, block_size))
                    # elem.checksum THEN "false"
        ELSE "ok"

\* the checks of one selected byteStream element (core.py:142-160):
\* "ok", "false" or "raise"
CheckComponent(files, path, elem, block_size) ==
    LET component_path == JoinPath(path, Parts(elem.href))
    IN  IF ~IsFile(files, component_path) THEN "false"
        ELSE IF "size" \notin DOMAIN elem THEN "raise"
        ELSE IF Len(files[component_path]) # elem.size THEN "false"
        ELSE IF "checksumName" \notin DOMAIN elem THEN "raise"
        ELSE IF StrUpper(elem.checksumName) # "MD5" THEN "false"
        ELSE IF "checksum" \notin DOMAIN elem THEN "false"
        ELSE IF Md5Hex(ReadChunks(files[component_path], 0, block_size))
                    # elem.checksum THEN "false"
        ELSE "ok"

\* does CheckComponent get as far as opening the component (core.py:156)
Hashes(files, path, elem) ==
    LET component_path == JoinPath(path, Parts(elem.href))
    IN  /\ IsFile(files, component_path)
        /\ "size" \in DOMAIN elem
        /\ Len(files[component_path]) = elem.size
        /\ "checksumName" \in DOMAIN elem
        /\ StrUpper(elem.checksumName) = "MD5"

RECURSIVE CheckElems(_, _, _, _, _, _)
\* the loop over the byteStream elements (core.py:125-160)
CheckElems(files, path, patterns, block_size, elems, reads) ==
    IF elems = <<>> THEN Return(TRUE, reads)
    ELSE
      LET elem == Head(elems)
          rest == Tail(elems)
      IN  IF "href" \notin DOMAIN elem THEN Raise(reads)
          ELSE
            LET rel == Parts(elem.href)
                sel == MatchAny(<<BaseName(path)>> \o rel, patterns)
                res == CheckComponent(files, path, elem, block_size)
                reads2 == IF Hashes(files, path, elem)
                          THEN Append(reads, JoinPath(path, rel)) ELSE reads
            IN  IF rel # <<>> /\ Head(rel) = "/" THEN Raise(reads)
                ELSE IF sel = "raise" THEN Raise(reads)
                ELSE IF sel = "nomatch"
                     THEN CheckElems(files, path, patterns, block_size, rest, reads)
                ELSE IF res = "raise" THEN Raise(reads)
                ELSE IF res = "false" THEN Return(FALSE, reads2)
                ELSE CheckElems(files, path, patterns, block_size, rest, reads2)

\* _is_product_complete without the test of core.py:122-123: a missing
\* manifest makes etree.parse raise
IsProductCompleteNoManifestTest(dirs, files, path, patterns, block_size) ==
    LET manifest_path == Append(path, "manifest.safe")
    IN  IF ~IsDir(dirs, path) THEN Return(FALSE, <<>>)
        ELSE IF ~IsFile(files, manifest_path) THEN Raise(<<manifest_path>>)
        ELSE IF ~WellFormed(files[manifest_path]) THEN Raise(<<manifest_path>>)
        ELSE CheckElems(files, path, EffectivePatterns(patterns), block_size,
                        ByteStreams(files[manifest_path]), <<manifest_path>>)

_is_product_complete(dirs, files, path, patterns, block_size) ==
    LET manifest_path == Append(path, "manifest.safe")
    IN  IF ~IsDir(dirs, path) THEN Return(FALSE, <<>>)
        ELSE IF ~IsFile(files, manifest_path) THEN Return(FALSE, <<>>)
        ELSE IF ~WellFormed(files[manifest_path]) THEN Raise(<<manifest_path>>)
        ELSE CheckElems(files, path, EffectivePatterns(patterns), block_size,
                        ByteStreams(files[manifest_path]), <<manifest_path>>)

(***************************************************************************)
(* _filter_components (core.py:165-175): the entries of zf.filelist whose  *)
(* filename matches one of the patterns, in the order of the list.         *)
(***************************************************************************)
\* _filter_components that tries the first pattern only
FilterFirstPattern(filelist, patterns) ==
    SelectSeq(filelist,
              LAMBDA info : patterns # <<>> /\ fnmatch(info.filename, patterns[1]))

\* _filter_components without the break of core.py:174: an entry is appended
\* once for each pattern it matches
FilterNoBreak(filelist, patterns) ==
    Concat([j \in 1..Len(filelist) |->
               [q \in 1..Len(SelectSeq(patterns,
                                      LAMBDA p : fnmatch(filelist[j].filename, p)))
                   |-> filelist[j]]])

_filter_components(filelist, patterns) ==
    SelectSeq(filelist,
              LAMBDA info : \E j \in 1..Len(patterns) :
                                fnmatch(info.filename, patterns[j]))

(***************************************************************************)
(* The content of the two products and of their archives.                 *)
(***************************************************************************)
\* a payload of n bytes
Payload(n) == [j \in 1..n |-> Byte(j)]
\* the same number of bytes, the last one changed
Corrupted(c) == [j \in 1..Len(c) |-> IF j = Len(c) THEN Byte(0) ELSE c[j]]
\* data[: len(data) // 2]
Truncated(c) == SubSeq(c, 1, Len(c) \div 2)

MeasData == <<Byte(7), Byte(7)>>
AnnBData == <<Byte(9)>>

\* the byteStream element that a manifest holds for a component
Declare(href, content, name) ==
    [href |-> href, size |-> Len(content), checksumName |-> name,
     checksum |-> Md5Hex(<<content>>)]

\* the manifest of product A: n is the size of its annotation file, names
\* gives the checksumName of the annotation and of the measurement file
ManifestA(n, names) ==
    << XmlOpen,
       Declare("./" \o AnnA, Payload(n), names[1]),
       Declare("./" \o MeasA, MeasData, names[2]),
       XmlClose >>

ManifestB == <<XmlOpen, Declare("./" \o AnnB, AnnBData, "MD5"), XmlClose>>

\* the checksumName pairs product A is published with
NamesA == { <<"MD5", "MD5">>, <<"md5", "MD5">>, <<"SHA256", "MD5">>,
            <<"MD5", "SHA256">> }

\* the members of the two remote archives, in central-directory order
MembersA(n, names) ==
    << [filename |-> "S1A.SAFE/" \o AnnA, data |-> Payload(n)],
       [filename |-> "S1A.SAFE/manifest.safe", data |-> ManifestA(n, names)],
       [filename |-> "S1A.SAFE/" \o MeasA, data |-> MeasData] >>

MembersB ==
    << [filename |-> "S1B.SAFE/manifest.safe", data |-> ManifestB],
       [filename |-> "S1B.SAFE/" \o AnnB, data |-> AnnBData] >>

\* a third product, published with a calibration annotation in a directory
\* below its annotation directory
UrlC == "https://asf/SLC/S1C.zip"

\* the members of its archive: the manifest, an annotation file and a
\* calibration file, both declared in the manifest
MembersC ==
    LET ann == "annotation/s1c-iw1-slc-vv-1.xml"
        cal == "annotation/calibration/calibration-s1c-iw1-slc-vv-1.xml"
        manifest == << XmlOpen,
                       Declare("./" \o ann, AnnBData, "MD5"),
                       Declare("./" \o cal, <<Byte(5)>>, "MD5"),
                       XmlClose >>
    IN  << [filename |-> "S1C.SAFE/manifest.safe", data |-> manifest],
           [filename |-> "S1C.SAFE/" \o ann, data |-> AnnBData],
           [filename |-> "S1C.SAFE/" \o cal, data |-> <<Byte(5)>>] >>

\* a fourth product, whose archive holds besides its manifest an entry with
\* '..' components and an entry with an absolute name
UrlD == "https://asf/SLC/S1D.zip"

MembersD ==
    << [filename |-> "S1D.SAFE/manifest.safe", data |-> <<XmlOpen, XmlClose>>],
       [filename |-> "S1D.SAFE/../../S1E.SAFE/manifest.safe", data |-> <<Byte(6)>>],
       [filename |-> "/S1F.SAFE/manifest.safe", data |-> <<Byte(8)>>] >>

BlockSizes == 1..MaxBlock

(***************************************************************************)
(* The local trees a call can start from: a file system is a record        *)
(* [dirs, files].                                                          *)
(***************************************************************************)
ProductA == Append(OutDir, "S1A.SAFE")

\* a tree made of the given files and of the directories that lead to them
Tree(fs) == [dirs |-> UNION {Ancestors(Parent(p)) : p \in DOMAIN fs}, files |-> fs]

File(base, name, content) == (JoinPath(base, Parts(name)) :> content)

EmptyMap == [p \in {} |-> <<>>]

\* a manifest whose first byteStream element has no size attribute
NoSize(manifest) ==
    [j \in 1..Len(manifest) |->
        IF j = 2 THEN [f \in DOMAIN manifest[j] \ {"size"} |-> manifest[j][f]]
        ELSE manifest[j]]

TreeKinds ==
    { "empty", "annotated", "whole", "cut", "changed", "no component",
      "no manifest", "cut manifest", "no size", "file in the way" }

LocalTree(kind, n, names) ==
    LET man(m) == File(ProductA, "manifest.safe", m)
        ann(d) == File(ProductA, AnnA, d)
        meas == File(ProductA, MeasA, MeasData)
        manifest == ManifestA(n, names)
        c == Payload(n)
    IN  CASE kind = "empty" -> Tree(EmptyMap)
          \* the product as a run with the default patterns leaves it
          [] kind = "annotated" -> Tree(man(manifest) @@ ann(c))
          [] kind = "whole" -> Tree(man(manifest) @@ ann(c) @@ meas)
          \* a component cut short, and one with a byte changed
          [] kind = "cut" -> Tree(man(manifest) @@ ann(Truncated(c)))
          [] kind = "changed" -> Tree(man(manifest) @@ ann(Corrupted(c)))
          [] kind = "no component" -> Tree(man(manifest))
          [] kind = "no manifest" -> Tree(ann(c))
          \* a manifest cut short, and one without a size attribute
          [] kind = "cut manifest" -> Tree(man(SubSeq(manifest, 1, 2)) @@ ann(c))
          [] kind = "no size" -> Tree(man(NoSize(manifest)) @@ ann(c))
          \* a regular file where the product directory should be
          [] kind = "file in the way" -> Tree(ProductA :> <<Byte(1)>>)

\* what a behaviour of the download starts with: the published product (the
\* checksum names and the size of its annotation file), the block size and
\* the local tree.  From an empty tree every size goes with every block
\* size; the other trees are those of the largest product, read with the
\* largest block size.
Scenarios ==
    {sc \in [names : NamesA, kind : TreeKinds, size : 0..MaxLen,
             block_size : BlockSizes] :
        \/ sc.kind = "empty"
        \/ /\ sc.size = MaxLen
           /\ sc.block_size = MaxBlock
           /\ sc.names = <<"MD5", "MD5">> \/ sc.kind \in {"annotated", "whole"}}

(***************************************************************************)
(* download_components_from_urls (core.py:195-246) as a state machine.     *)
(***************************************************************************)
VARIABLES
    urls,         \* the urls argument
    patterns,     \* the patterns argument
    block_size,   \* the block_size argument
    size,         \* the size of product A's annotation file
    names,        \* the checksumName pair of product A's manifest
    dirs, files,  \* the local file system
    pc,           \* "start", "loop", "open", "entry", "copy", "done", "error"
    pats,         \* the local variable patterns, after core.py:206-207
    i,            \* index in urls of the url being handled
    components,   \* the selected entries of the open archive
    k,            \* index in components of the entry being handled
    pos,          \* read offset in the entry being copied
    zfOpen,       \* an archive handle is open
    sessionOpen,  \* the network session the client made is open
    result,       \* what the last call of _is_product_complete returned
    log,          \* what this call did so far, in order
    run,          \* number of the current call
    dirs0, files0, \* the file system when the current call started
    client,       \* the client implementation core.py:58 selected
    length,       \* HttpIOFile.length: <<>> for None, <<n>> for n
    fileSession   \* HttpIOFile._session: "none", "own" or "external"

vars == << urls, patterns, block_size, size, names, dirs, files, pc, pats, i,
           components, k, pos, zfOpen, sessionOpen, result, log, run, dirs0,
           files0, client, length, fileSession >>

\* the fields of an HttpIOFile
file == << length, fileSession >>

\* core.py:33: the client implementations, in the order they are tried
Implementations == <<"httpio", "fsspec", "remotezip">>

\* the session after the __exit__ of the client: HttpIOClient
\* (httpio_client.py:47-48) and RemoteZipCLient (remotezip_client.py:20-21)
\* close it, FsspacClient inherits the __exit__ of AbstractClient
\* (common.py:28-29), which does nothing
ClientExit(c, open) == IF c \in {"httpio", "remotezip"} THEN FALSE ELSE open

\* an HttpIOFile that was never opened
NewFile ==
    /\ length = <<>>
    /\ fileSession = "none"

args == << urls, patterns, block_size, size, names >>

\* the members of the archive behind a url
Members(url) ==
    CASE url = UrlA -> MembersA(size, names)
      [] url = UrlC -> MembersC
      [] url = UrlD -> MembersD
      [] OTHER -> MembersB

\* zf.filelist: the ZipInfo of each member
FileList(url) ==
    [j \in 1..Len(Members(url)) |->
        [filename |-> Members(url)[j].filename,
         file_size |-> Len(Members(url)[j].data),
         index |-> j]]

\* the decompressed bytes zf.open(info) gives
Data(url, info) == Members(url)[info.index].data

Init ==
    /\ urls \in UrlLists
    /\ client = Implementations[1]
    /\ NewFile
    /\ patterns \in PatternLists
    /\ \E sc \in Scenarios :
         /\ block_size = sc.block_size
         /\ size = sc.size
         /\ names = sc.names
         /\ dirs = LocalTree(sc.kind, sc.size, sc.names).dirs
         /\ files = LocalTree(sc.kind, sc.size, sc.names).files
    /\ dirs0 = dirs
    /\ files0 = files
    /\ pc = "start"
    /\ pats = <<>>
    /\ i = 0
    /\ components = <<>>
    /\ k = 0
    /\ pos = 0
    /\ zfOpen = FALSE
    /\ sessionOpen = FALSE
    /\ result = Return(FALSE, <<>>)
    /\ log = <<>>
    /\ run = 1

\* ProductOutPath without the with_suffix of core.py:214: the name of the
\* archive is kept as it is in the url
ProductOutPathKeepsSuffix(url) ==
    JoinPath(OutDir, <<BaseName(Parts(UrlPath(url)))>>)

\* core.py:213-214
ProductOutPath(url) ==
    WithSuffix(JoinPath(OutDir, <<BaseName(Parts(UrlPath(url)))>>), ".SAFE")

\* core.py:229-232
OutFile(info) ==
    LET filename == Parts(info.filename)
        targetdir == JoinPath(OutDir, Parent(filename))
    IN  JoinPath(targetdir, IF BaseName(filename) = "" THEN <<>>
                            ELSE <<BaseName(filename)>>)

\* core.py:205-210: the default patterns replace None, the client is entered
Start ==
    /\ pc = "start"
    /\ pats' = IF patterns = NonePatterns THEN DefaultPatterns ELSE patterns
    /\ sessionOpen' = TRUE
    /\ i' = 1
    /\ pc' = "loop"
    /\ UNCHANGED << client, file, args, dirs, files, components, k, pos, zfOpen, result, log,
                    run, dirs0, files0 >>

\* CheckLocal without the continue of core.py:220: the archive is opened
\* whatever the check returned
CheckLocalAlwaysOpen ==
    /\ pc = "loop"
    /\ i <= Len(urls)
    /\ LET r == _is_product_complete(dirs, files, ProductOutPath(urls[i]), pats,
                                     block_size)
       IN  /\ result' = r
           /\ log' = Append(log, [op |-> "check", i |-> i, raised |-> r.raised,
                                  value |-> r.value])
           /\ IF r.raised
              THEN /\ pc' = "error"
                   /\ sessionOpen' = ClientExit(client, sessionOpen)
              ELSE /\ pc' = "open"
                   /\ UNCHANGED sessionOpen
    /\ UNCHANGED << client, file, args, dirs, files, pats, i, components, k, pos, zfOpen, run,
                    dirs0, files0 >>

\* core.py:211-220: the next url, and the check of its local product
CheckLocal ==
    /\ pc = "loop"
    /\ i <= Len(urls)
    /\ LET r == _is_product_complete(dirs, files, ProductOutPath(urls[i]), pats,
                                     block_size)
       IN  /\ result' = r
           /\ log' = Append(log, [op |-> "check", i |-> i, raised |-> r.raised,
                                  value |-> r.value])
           /\ IF r.raised
              THEN /\ pc' = "error"
                   /\ sessionOpen' = ClientExit(client, sessionOpen)
                   /\ i' = i
              ELSE IF r.value
              THEN /\ pc' = "loop"
                   /\ i' = i + 1
                   /\ UNCHANGED sessionOpen
              ELSE /\ pc' = "open"
                   /\ i' = i
                   /\ UNCHANGED sessionOpen
    /\ UNCHANGED << client, file, args, dirs, files, pats, components, k, pos, zfOpen, run,
                    dirs0, files0 >>

\* core.py:209, 211: the urls are exhausted, the client is left
Finish ==
    /\ pc = "loop"
    /\ i > Len(urls)
    /\ pc' = "done"
    /\ sessionOpen' = ClientExit(client, sessionOpen)
    /\ UNCHANGED << client, file, args, dirs, files, pats, i, components, k, pos, zfOpen,
                    result, log, run, dirs0, files0 >>

\* core.py:222-227: the archive is opened and its entries are selected
OpenArchive ==
    /\ pc = "open"
    /\ zfOpen' = TRUE
    /\ components' = _filter_components(FileList(urls[i]), pats)
    /\ k' = 1
    /\ log' = Append(log, [op |-> "open", i |-> i])
    /\ pc' = "entry"
    /\ UNCHANGED << client, file, args, dirs, files, pats, i, pos, sessionOpen, result, run,
                    dirs0, files0 >>

\* NextEntry without the test of core.py:236: an entry whose file exists is
\* downloaded again, and open(outfile, "wb") empties the file
NextEntryOverwrite ==
    /\ pc = "entry"
    /\ k <= Len(components)
    /\ LET outfile == OutFile(components[k])
       IN  IF MkdirRaises(files, Parent(outfile)) \/ IsDir(dirs, outfile)
           THEN /\ pc' = "error"
                /\ zfOpen' = FALSE
                /\ sessionOpen' = ClientExit(client, sessionOpen)
                /\ log' = Append(log, [op |-> "raise", i |-> i, k |-> k])
                /\ UNCHANGED << dirs, files, k, pos >>
           ELSE /\ dirs' = Mkdir(dirs, Parent(outfile))
                /\ files' = [p \in DOMAIN files \cup {outfile} |->
                                IF p = outfile THEN <<>> ELSE files[p]]
                /\ pos' = 0
                /\ pc' = "copy"
                /\ log' = Append(log, [op |-> "create", i |-> i, k |-> k])
                /\ UNCHANGED << k, zfOpen, sessionOpen >>
    /\ UNCHANGED << client, file, args, pats, i, components, result, run, dirs0, files0 >>

\* core.py:228-239 and 189: the next selected entry; its directory is made,
\* and the entry is skipped when its file exists, else source and destination
\* are opened
NextEntry ==
    /\ pc = "entry"
    /\ k <= Len(components)
    /\ LET outfile == OutFile(components[k])
       IN  IF MkdirRaises(files, Parent(outfile))
           THEN /\ pc' = "error"
                /\ zfOpen' = FALSE
                /\ sessionOpen' = ClientExit(client, sessionOpen)
                /\ log' = Append(log, [op |-> "raise", i |-> i, k |-> k])
                /\ UNCHANGED << dirs, files, k, pos >>
           ELSE /\ dirs' = Mkdir(dirs, Parent(outfile))
                /\ IF Exists(dirs', files, outfile)
                   THEN /\ k' = k + 1
                        /\ log' = Append(log, [op |-> "skip", i |-> i, k |-> k])
                        /\ UNCHANGED << files, pc, pos, zfOpen, sessionOpen >>
                   ELSE /\ files' = [p \in DOMAIN files \cup {outfile} |->
                                        IF p = outfile THEN <<>> ELSE files[p]]
                        /\ pos' = 0
                        /\ pc' = "copy"
                        /\ log' = Append(log, [op |-> "create", i |-> i, k |-> k])
                        /\ UNCHANGED << k, zfOpen, sessionOpen >>
    /\ UNCHANGED << client, file, args, pats, i, components, result, run, dirs0, files0 >>

\* CloseArchive without the with statement of core.py:222: the loop goes on
\* to the next url and the archive stays open
CloseArchiveNever ==
    /\ pc = "entry"
    /\ k > Len(components)
    /\ i' = i + 1
    /\ pc' = "loop"
    /\ UNCHANGED << client, file, args, dirs, files, pats, components, k, pos,
                    zfOpen, sessionOpen, result, log, run, dirs0, files0 >>

\* core.py:222, 228: the entries are exhausted, the archive is closed
CloseArchive ==
    /\ pc = "entry"
    /\ k > Len(components)
    /\ zfOpen' = FALSE
    /\ log' = Append(log, [op |-> "close", i |-> i])
    /\ i' = i + 1
    /\ pc' = "loop"
    /\ UNCHANGED << client, file, args, dirs, files, pats, components, k, pos, sessionOpen,
                    result, run, dirs0, files0 >>

\* CopyChunk with a loop that ends at the first short read and drops it
CopyChunkStopsShort ==
    /\ pc = "copy"
    /\ LET info == components[k]
           outfile == OutFile(info)
           data == Read(Data(urls[i], info), pos, block_size)
       IN  /\ log' = Append(log, [op |-> "read", i |-> i, k |-> k,
                                  n |-> Len(data)])
           /\ IF Len(data) < block_size
              THEN /\ k' = k + 1
                   /\ pc' = "entry"
                   /\ UNCHANGED << files, pos >>
              ELSE /\ files' = [files EXCEPT ![outfile] = @ \o data]
                   /\ pos' = pos + Len(data)
                   /\ UNCHANGED << k, pc >>
    /\ UNCHANGED << client, file, args, dirs, pats, i, components, zfOpen, sessionOpen,
                    result, run, dirs0, files0 >>

\* _download (core.py:189-192): one turn of the copy loop, a read of at most
\* block_size bytes and, unless it is empty, the write of what was read
CopyChunk ==
    /\ pc = "copy"
    /\ LET info == components[k]
           outfile == OutFile(info)
           data == Read(Data(urls[i], info), pos, block_size)
       IN  /\ log' = Append(log, [op |-> "read", i |-> i, k |-> k,
                                  n |-> Len(data)])
           /\ IF data = <<>>
              THEN /\ k' = k + 1
                   /\ pc' = "entry"
                   /\ UNCHANGED << files, pos >>
              ELSE /\ files' = [files EXCEPT ![outfile] = @ \o data]
                   /\ pos' = pos + Len(data)
                   /\ UNCHANGED << k, pc >>
    /\ UNCHANGED << client, file, args, dirs, pats, i, components, zfOpen, sessionOpen,
                    result, run, dirs0, files0 >>

\* the caller calls download_components_from_urls again, with the same arguments
Rerun ==
    /\ pc \in {"done", "error"}
    /\ run < MaxRuns
    /\ run' = run + 1
    /\ pc' = "start"
    /\ dirs0' = dirs
    /\ files0' = files
    /\ log' = <<>>
    /\ pats' = <<>>
    /\ i' = 0
    /\ components' = <<>>
    /\ k' = 0
    /\ pos' = 0
    /\ UNCHANGED << client, file, args, dirs, files, zfOpen, sessionOpen, result >>

Next ==
    \/ Start
    \/ CheckLocal
    \/ Finish
    \/ OpenArchive
    \/ NextEntry
    \/ CloseArchive
    \/ CopyChunk
    \/ Rerun

Spec == Init /\ [][Next]_vars

(***************************************************************************)
(* _is_product_complete on its own, as the tests of tests/test_core.py     *)
(* call it: on a local tree of product A, then again after a file of a     *)
(* product that was found complete has been cut short, removed or changed. *)
(* Here dirs0 and files0 hold the tree as it was before the last damage,   *)
(* and run counts the calls.                                               *)
(***************************************************************************)
\* the edits made so far
Edits(l) == Len(SelectSeq(l, LAMBDA e : e.op # "call"))

CheckInit ==
    /\ urls = <<>>
    /\ client = Implementations[1]
    /\ NewFile
    /\ patterns \in PatternLists
    /\ block_size \in BlockSizes
    /\ size \in 0..MaxLen
    /\ names \in NamesA
    /\ \E kind \in TreeKinds :
         /\ dirs = LocalTree(kind, size, names).dirs
         /\ files = LocalTree(kind, size, names).files
    /\ dirs0 = dirs
    /\ files0 = files
    /\ pc = "idle"
    /\ pats = <<>>
    /\ i = 0
    /\ components = <<>>
    /\ k = 0
    /\ pos = 0
    /\ zfOpen = FALSE
    /\ sessionOpen = FALSE
    /\ result = Return(FALSE, <<>>)
    /\ log = <<>>
    /\ run = 0

\* what the actions on the check leave alone
CheckFrame ==
    UNCHANGED << client, file, args, pats, i, components, k, pos, zfOpen, sessionOpen >>

\* _is_product_complete(product_path, patterns, block_size) is called
CallCheck ==
    /\ pc = "idle"
    /\ result' = _is_product_complete(dirs, files, ProductA, patterns, block_size)
    /\ log' = Append(log, [op |-> "call", raised |-> result'.raised,
                           value |-> result'.value])
    /\ run' = run + 1
    /\ pc' = "returned"
    /\ UNCHANGED << dirs, files, dirs0, files0 >>
    /\ CheckFrame

\* a product that was found complete is about to be damaged
Damageable ==
    /\ pc = "returned"
    /\ ~result.raised
    /\ result.value
    /\ Edits(log) < MaxEdits

\* tests/test_core.py:168-179: a file is cut to half its length
TruncateFile ==
    /\ Damageable
    /\ \E p \in DOMAIN files :
         /\ files' = [files EXCEPT ![p] = Truncated(@)]
         /\ log' = Append(log, [op |-> "truncate", path |-> p])
    /\ pc' = "idle"
    /\ dirs0' = dirs
    /\ files0' = files
    /\ UNCHANGED << dirs, result, run >>
    /\ CheckFrame

\* tests/test_core.py:155-165: a file is removed
UnlinkFile ==
    /\ Damageable
    /\ \E p \in DOMAIN files :
         /\ files' = [q \in DOMAIN files \ {p} |-> files[q]]
         /\ log' = Append(log, [op |-> "unlink", path |-> p])
    /\ pc' = "idle"
    /\ dirs0' = dirs
    /\ files0' = files
    /\ UNCHANGED << dirs, result, run >>
    /\ CheckFrame

\* tests/test_core.py:182-195: a byte of a file is changed, its length is kept
CorruptFile ==
    /\ Damageable
    /\ \E p \in DOMAIN files :
         /\ files' = [files EXCEPT ![p] = Corrupted(@)]
         /\ log' = Append(log, [op |-> "corrupt", path |-> p])
    /\ pc' = "idle"
    /\ dirs0' = dirs
    /\ files0' = files
    /\ UNCHANGED << dirs, result, run >>
    /\ CheckFrame

CheckNext ==
    \/ CallCheck
    \/ TruncateFile
    \/ UnlinkFile
    \/ CorruptFile

CheckSpec == CheckInit /\ [][CheckNext]_vars

(***************************************************************************)
(* The pure functions called on their own, as the unit tests call them.    *)
(* Every call is appended to log with its arguments and its value; nothing *)
(* else of the state moves.                                                *)
(***************************************************************************)
\* nothing on disk, nothing asked, no call made yet
FnInit ==
    /\ urls = <<>>
    /\ client = Implementations[1]
    /\ NewFile
    /\ patterns = NonePatterns
    /\ block_size = 1
    /\ size = 0
    /\ names = <<"MD5", "MD5">>
    /\ dirs = Tree(EmptyMap).dirs
    /\ files = Tree(EmptyMap).files
    /\ dirs0 = dirs
    /\ files0 = files
    /\ pc = "idle"
    /\ pats = <<>>
    /\ i = 0
    /\ components = <<>>
    /\ k = 0
    /\ pos = 0
    /\ zfOpen = FALSE
    /\ sessionOpen = FALSE
    /\ result = Return(FALSE, <<>>)
    /\ log = <<>>
    /\ run = 0

\* what a call of a pure function leaves alone
FnFrame ==
    UNCHANGED << client, file, args, dirs, files, dirs0, files0, i, k, pos, zfOpen,
                 sessionOpen, result >>

\* the sequences over S of length at most n
SeqUpTo(S, n) == UNION {[1..m -> S] : m \in 0..n}

\* tests/test_core.py:204-208: the names of the entries of a DummyZipFile,
\* one of them in a directory
FilterNames == {"", "abc.txt", "def.dat", "a/abc.txt"}

\* the patterns _filter_components is tried with
FilterPatterns == {"*.txt", "abc.*", "?ef.dat", "*"}

\* DummyZipFile(filelist).filelist: a ZipInfo per name; index tells two
\* entries of the same name apart
ZipInfos(fnames) ==
    [j \in 1..Len(fnames) |-> [filename |-> fnames[j], file_size |-> 0,
                               index |-> j]]

\* tests/test_core.py:203-214: _filter_components(zf, patterns)
CallFilterComponents ==
    /\ pc = "idle"
    /\ \E fnames \in SeqUpTo(FilterNames, MaxLen),
          ps \in SeqUpTo(FilterPatterns, MaxPatterns) :
         /\ pats' = ps
         /\ components' = _filter_components(ZipInfos(fnames), ps)
         /\ log' = Append(log, [op |-> "_filter_components",
                                filelist |-> ZipInfos(fnames),
                                patterns |-> ps,
                                value |-> components'])
    /\ run' = run + 1
    /\ pc' = "returned"
    /\ FnFrame

FilterNext ==
    \/ CallFilterComponents

FilterSpec == FnInit /\ [][FilterNext]_vars

\* the beam and pol arguments: None, the default of the signature, the value
\* of tests/test_core.py:26-27 and a real one
Beams == {NoneStr, "*", "<beam>", "iw1"}
Pols == {NoneStr, "??", "<pol>", "vv"}

\* the record of a call of make_patterns
MakePatternsCall(beam, pol, cal, noise, rfi, data) ==
    [op |-> "make_patterns", beam |-> beam, pol |-> pol, cal |-> cal,
     noise |-> noise, rfi |-> rfi, data |-> data,
     value |-> make_patterns(beam, pol, cal, noise, rfi, data)]

\* tests/test_core.py:16-67: make_patterns(**kwargs)
CallMakePatterns ==
    /\ pc = "idle"
    /\ \E beam \in Beams, pol \in Pols, cal, noise, rfi, data \in BOOLEAN :
         /\ log' = Append(log, MakePatternsCall(beam, pol, cal, noise, rfi, data))
         /\ pats' = make_patterns(beam, pol, cal, noise, rfi, data)
    /\ run' = run + 1
    /\ pc' = "returned"
    /\ UNCHANGED components
    /\ FnFrame

\* the same call once more
CallMakePatternsAgain ==
    /\ pc = "returned"
    /\ run < MaxRuns
    /\ LET e == log[Len(log)]
       IN  /\ log' = Append(log, MakePatternsCall(e.beam, e.pol, e.cal, e.noise,
                                                  e.rfi, e.data))
           /\ pats' = make_patterns(e.beam, e.pol, e.cal, e.noise, e.rfi, e.data)
    /\ run' = run + 1
    /\ UNCHANGED << pc, components >>
    /\ FnFrame

PatternsNext ==
    \/ CallMakePatterns
    \/ CallMakePatternsAgain

PatternsSpec == FnInit /\ [][PatternsNext]_vars

(***************************************************************************)
(* download_components_from_urls over a network that can fail, with each  *)
(* of the client implementations: opening an archive, reading its         *)
(* directory, opening an entry and reading from it can raise.  Nothing in  *)
(* core.py:209-246 catches, so the with statements of core.py:209 and 222  *)
(* are left and the call raises.                                           *)
(***************************************************************************)
FailInit ==
    /\ urls \in UrlLists
    /\ patterns \in {NonePatterns,
                     make_patterns("*", "??", FALSE, FALSE, FALSE, TRUE)}
    /\ block_size = MaxBlock
    /\ size = MaxLen
    /\ names = <<"MD5", "MD5">>
    /\ dirs = Tree(EmptyMap).dirs
    /\ files = Tree(EmptyMap).files
    /\ dirs0 = dirs
    /\ files0 = files
    /\ client \in Range(Implementations)
    /\ NewFile
    /\ pc = "start"
    /\ pats = <<>>
    /\ i = 0
    /\ components = <<>>
    /\ k = 0
    /\ pos = 0
    /\ zfOpen = FALSE
    /\ sessionOpen = FALSE
    /\ result = Return(FALSE, <<>>)
    /\ log = <<>>
    /\ run = 1

\* the call raises from inside the with statements, at an entry of the
\* archive or before the first (0): the archive handle, if there is one, is
\* closed (core.py:222) and the client is left (core.py:209)
Raises(at, entry) ==
    /\ pc' = "error"
    /\ zfOpen' = FALSE
    /\ sessionOpen' = ClientExit(client, sessionOpen)
    /\ log' = Append(log, [op |-> "fail", at |-> at, i |-> i, k |-> entry])
    /\ UNCHANGED << client, file, args, files, pats, i, components, k, pos,
                    result, run, dirs0, files0 >>

\* core.py:222: client.open_zip_archive(url) raises before it has an archive:
\* the url cannot be opened, or what it gives is not a zip archive
OpenFails ==
    /\ pc = "open"
    /\ Raises("open", 0)
    /\ UNCHANGED dirs

\* core.py:189: zf.open(info) raises, before the output file is made
EntryOpenFails ==
    /\ pc = "entry"
    /\ k <= Len(components)
    /\ ~MkdirRaises(files, Parent(OutFile(components[k])))
    /\ ~Exists(Mkdir(dirs, Parent(OutFile(components[k]))), files,
               OutFile(components[k]))
    /\ dirs' = Mkdir(dirs, Parent(OutFile(components[k])))
    /\ Raises("entry", k)

\* CopyFails caught by a handler that goes on with the next url
CopyFailsNextUrl ==
    /\ pc = "copy"
    /\ pc' = "loop"
    /\ i' = i + 1
    /\ zfOpen' = FALSE
    /\ log' = Append(log, [op |-> "fail", at |-> "read", i |-> i, k |-> k])
    /\ UNCHANGED << client, file, args, dirs, files, pats, components, k, pos,
                    sessionOpen, result, run, dirs0, files0 >>

\* core.py:190: src.read(block_size) raises; what was written stays
CopyFails ==
    /\ pc = "copy"
    /\ Raises("read", k)
    /\ UNCHANGED dirs

FailNext ==
    \/ Start
    \/ CheckLocal
    \/ Finish
    \/ OpenArchive
    \/ NextEntry
    \/ CloseArchive
    \/ CopyChunk
    \/ OpenFails
    \/ EntryOpenFails
    \/ CopyFails

FailSpec == FailInit /\ [][FailNext]_vars

(***************************************************************************)
(* download_components_from_urls called again with the same arguments      *)
(* after calls that a failing read interrupted in the middle of a copy.    *)
(***************************************************************************)
RetryInit ==
    /\ FailInit
    /\ client = Implementations[1]

RetryNext ==
    \/ Start
    \/ CheckLocal
    \/ Finish
    \/ OpenArchive
    \/ NextEntry
    \/ CloseArchive
    \/ CopyChunk
    \/ CopyFails
    \/ Rerun

RetrySpec == RetryInit /\ [][RetryNext]_vars

(***************************************************************************)
(* The download of a product with a file below its annotation directory,   *)
(* with patterns a caller of download_components_from_urls passes, from a  *)
(* tree that is empty or holds what an earlier call left there.            *)
(***************************************************************************)
\* the local trees: nothing, what a call with the default patterns leaves
\* (the manifest and the annotation file), and the whole product
TreesC ==
    LET member(j) == File(OutDir, MembersC[j].filename, MembersC[j].data)
    IN  { Tree(EmptyMap),
          Tree(member(1) @@ member(2)),
          Tree(member(1) @@ member(2) @@ member(3)) }

SkipInit ==
    /\ urls \in {<<UrlC>>, <<UrlC, UrlB>>, <<UrlB, UrlC>>}
    /\ client = Implementations[1]
    /\ NewFile
    /\ patterns \in PatternLists
                     \cup {make_patterns("*", "??", TRUE, FALSE, FALSE, FALSE),
                           <<"annotation/*.xml">>}
    /\ block_size \in BlockSizes
    /\ size = MaxLen
    /\ names = <<"MD5", "MD5">>
    /\ \E t \in TreesC : dirs = t.dirs /\ files = t.files
    /\ dirs0 = dirs
    /\ files0 = files
    /\ pc = "start"
    /\ pats = <<>>
    /\ i = 0
    /\ components = <<>>
    /\ k = 0
    /\ pos = 0
    /\ zfOpen = FALSE
    /\ sessionOpen = FALSE
    /\ result = Return(FALSE, <<>>)
    /\ log = <<>>
    /\ run = 1

SkipSpec == SkipInit /\ [][Next]_vars

\* the download of an archive whose entry names lead out of the product
\* directory, on an empty output directory
EscapeInit ==
    /\ urls \in {<<UrlD>>, <<UrlD, UrlB>>, <<UrlB, UrlD>>}
    /\ client = Implementations[1]
    /\ NewFile
    /\ patterns \in PatternLists \cup {<<"*.SAFE/manifest.safe">>}
    /\ block_size \in BlockSizes
    /\ size = MaxLen
    /\ names = <<"MD5", "MD5">>
    /\ dirs = {}
    /\ files = EmptyMap
    /\ dirs0 = dirs
    /\ files0 = files
    /\ pc = "start"
    /\ pats = <<>>
    /\ i = 0
    /\ components = <<>>
    /\ k = 0
    /\ pos = 0
    /\ zfOpen = FALSE
    /\ sessionOpen = FALSE
    /\ result = Return(FALSE, <<>>)
    /\ log = <<>>
    /\ run = 1

EscapeSpec == EscapeInit /\ [][Next]_vars

\* the download on an empty output directory with a block size that is
\* negative, zero or positive (cli.py:207-212 takes any int)
BlockInit ==
    /\ urls \in UrlLists
    /\ client = Implementations[1]
    /\ NewFile
    /\ patterns \in PatternLists
    /\ block_size \in (0 - MaxBlock)..MaxBlock
    /\ size \in 1..MaxLen
    /\ names = <<"MD5", "MD5">>
    /\ dirs = {}
    /\ files = EmptyMap
    /\ dirs0 = dirs
    /\ files0 = files
    /\ pc = "start"
    /\ pats = <<>>
    /\ i = 0
    /\ components = <<>>
    /\ k = 0
    /\ pos = 0
    /\ zfOpen = FALSE
    /\ sessionOpen = FALSE
    /\ result = Return(FALSE, <<>>)
    /\ log = <<>>
    /\ run = 1

BlockSpec == BlockInit /\ [][Next]_vars

\* two calls in a row, the first one on an empty output directory
TwiceInit ==
    /\ Init
    /\ dirs = {}
    /\ files = EmptyMap

TwiceSpec == TwiceInit /\ [][Next]_vars

(***************************************************************************)
(* HttpIOFile.open (httpio_client.py:16-35) called on one file, once or     *)
(* again after it returned or raised.  The file is neither closing nor     *)
(* closed.  The server answers the probe with a status and with or without *)
(* the two headers; a header that is absent is NoneStr.                    *)
(***************************************************************************)
Digits == "0123456789"

\* int(s): <<n>> for a run of digits, <<>> where int raises ValueError
ParseInt(s) ==
    LET IsDigit(c) == \E j \in 1..Len(Digits) : SubSeq(Digits, j, j) = c
        DigitValue(c) ==
            (CHOOSE j \in 1..Len(Digits) : SubSeq(Digits, j, j) = c) - 1
        RECURSIVE IntAt(_, _)
        \* the number the digits give from position j on, with acc read so far
        IntAt(j, acc) ==
            IF j > Len(s) THEN acc
            ELSE IntAt(j + 1, acc * Len(Digits) + DigitValue(SubSeq(s, j, j)))
    IN  IF s # "" /\ \A j \in 1..Len(s) : IsDigit(SubSeq(s, j, j))
        THEN <<IntAt(1, 0)>>
        ELSE <<>>

RECURSIVE StrLower(_)
\* str.lower()
StrLower(s) ==
    LET LowerChar(c) ==
            IF \E j \in 1..26 : SubSeq(Upper, j, j) = c
            THEN LET j == CHOOSE j \in 1..26 : SubSeq(Upper, j, j) = c
                 IN  SubSeq(Lower, j, j)
            ELSE c
    IN  IF s = "" THEN "" ELSE LowerChar(Head(s)) \o StrLower(Tail(s))

\* the answers of the server to the probe: a status, and the Content-Length
\* and Accept-Ranges headers
Responses ==
    [status : {"200", "404"},
     content_length : {NoneStr, "3", "12", "x"},
     accept_ranges : {NoneStr, "bytes", "Bytes", "none"}]

\* response.raise_for_status() raises for the 4xx and 5xx codes
IsErrorStatus(status) == SubSeq(status, 1, 1) \in {"4", "5"}

\* httpio_client.py:22-34: what open does with the response of the probe;
\* raised is the exception, NoneStr when there is none
Probe(resp, len) ==
    IF IsErrorStatus(resp.status)
    THEN [raised |-> "HTTPError", length |-> len]
    ELSE IF resp.content_length = NoneStr
    THEN [raised |-> "HTTPIOError", length |-> len]
    ELSE IF ParseInt(resp.content_length) = <<>>
    THEN [raised |-> "ValueError", length |-> len]
    ELSE IF resp.accept_ranges = NoneStr \/ StrLower(resp.accept_ranges) # "bytes"
    THEN [raised |-> "HTTPIOError", length |-> ParseInt(resp.content_length)]
    ELSE [raised |-> NoneStr, length |-> ParseInt(resp.content_length)]

\* what the calls of HttpIOFile.open leave alone
HttpFrame ==
    UNCHANGED << client, args, dirs, files, dirs0, files0, pats, i, components,
                 k, pos, zfOpen, sessionOpen, result >>

\* HttpIOFile.open(session): the probe is one streamed GET without a Range
\* header whose body is not read (httpio_client.py:21-22)
FileOpen ==
    /\ run < MaxRuns
    /\ \E session \in {NoneStr, "external"} :
         IF fileSession = "none"
         THEN \E resp \in Responses :
                /\ fileSession' = IF session = NoneStr THEN "own" ELSE "external"
                /\ length' = Probe(resp, length).length
                /\ log' = log \o
                     << [op |-> "GET", stream |-> TRUE, range |-> FALSE,
                         body |-> FALSE],
                        [op |-> "open", session |-> session, probed |-> TRUE,
                         response |-> resp,
                         raised |-> Probe(resp, length).raised,
                         length |-> length'] >>
         ELSE /\ log' = Append(log, [op |-> "open", session |-> session,
                                     probed |-> FALSE, raised |-> NoneStr,
                                     length |-> length])
              /\ UNCHANGED file
    /\ run' = run + 1
    /\ pc' = "returned"
    /\ HttpFrame

HttpNext ==
    \/ FileOpen

HttpSpec == FnInit /\ [][HttpNext]_vars

(***************************************************************************)
(* load_product_lists (_utils.py:22-43).  A file is a name, the lines of   *)
(* its text and, for a JSON file, the items of the object json.loads       *)
(* gives: pairs of a key and a list of products.  A dict is a function on  *)
(* its keys.                                                               *)
(***************************************************************************)
RECURSIVE unique(_)
\* _utils.py:11-19
unique(data) ==
    IF data = <<>> THEN <<>>
    ELSE LET before == unique(SubSeq(data, 1, Len(data) - 1))
         IN  IF data[Len(data)] \in Range(before) THEN before
             ELSE Append(before, data[Len(data)])

\* str.strip() of a line without tabs and newlines
Strip(line) ==
    LET inked == {j \in 1..Len(line) : SubSeq(line, j, j) # " "}
    IN  IF inked = {} THEN ""
        ELSE SubSeq(line, CHOOSE j \in inked : \A m \in inked : j <= m,
                    CHOOSE j \in inked : \A m \in inked : j >= m)

\* _utils.py:40: item.replace(".zip", "").replace(".SAFE", "")
StripExtensions(item) ==
    LET RECURSIVE RemoveFrom(_, _, _)
        \* s[j-1:].replace(old, "")
        RemoveFrom(s, old, j) ==
            IF j > Len(s) THEN ""
            ELSE IF /\ j + Len(old) - 1 <= Len(s)
                    /\ SubSeq(s, j, j + Len(old) - 1) = old
            THEN RemoveFrom(s, old, j + Len(old))
            ELSE SubSeq(s, j, j) \o RemoveFrom(s, old, j + 1)
    IN  RemoveFrom(RemoveFrom(item, ".zip", 1), ".SAFE", 1)

EmptyDict == [key \in {} |-> <<>>]

RECURSIVE DictOf(_)
\* the dict of a JSON object: of two items with the same key the last stays
DictOf(items) ==
    IF items = <<>> THEN EmptyDict
    ELSE LET last == items[Len(items)]
             before == DictOf(SubSeq(items, 1, Len(items) - 1))
         IN  [key \in DOMAIN before \cup {last[1]} |->
                 IF key = last[1] THEN last[2] ELSE before[key]]

\* _utils.py:28: data.update(mapping)
Update(data, mapping) ==
    [key \in DOMAIN data \cup DOMAIN mapping |->
        IF key \in DOMAIN mapping THEN mapping[key] ELSE data[key]]

\* _utils.py:32-34: the lines of a text file that count
ProductLines(lines) ==
    SelectSeq([j \in 1..Len(lines) |-> Strip(lines[j])],
              LAMBDA line : line # "" /\ SubSeq(line, 1, 1) # "#")

\* _utils.py:30-35: data[""].append(line) for each line that counts
AppendLines(data, lines) ==
    IF ProductLines(lines) = <<>> THEN data
    ELSE [key \in DOMAIN data \cup {""} |->
             IF key = ""
             THEN (IF "" \in DOMAIN data THEN data[""] ELSE <<>>)
                  \o ProductLines(lines)
             ELSE data[key]]

\* _utils.py:28: what data.update takes from json.loads of a file.  An object
\* gives its items.  Of a list, update reads each element as a pair of a
\* key and a value: a string of two characters gives its first character as
\* key and its second as value (a string, whose only item is itself), a
\* string of another length raises ValueError.
JsonMapping(f) ==
    IF \E j \in 1..Len(f.array) : Len(f.array[j]) # 2
    THEN [raised |-> "ValueError", mapping |-> EmptyDict]
    ELSE [raised |-> NoneStr,
          mapping |-> DictOf(f.items \o
                             [j \in 1..Len(f.array) |->
                                 <<SubSeq(f.array[j], 1, 1),
                                   <<SubSeq(f.array[j], 2, 2)>> >>])]

RECURSIVE LoadFiles(_, _, _)
\* _utils.py:25-35: the loop over the files, from file j on
LoadFiles(data, filenames, j) ==
    IF j > Len(filenames) THEN [raised |-> NoneStr, data |-> data]
    ELSE IF Suffix(filenames[j].name) = ".json"
    THEN IF JsonMapping(filenames[j]).raised # NoneStr
         THEN [raised |-> JsonMapping(filenames[j]).raised, data |-> data]
         ELSE LoadFiles(Update(data, JsonMapping(filenames[j]).mapping),
                        filenames, j + 1)
    ELSE LoadFiles(AppendLines(data, filenames[j].lines), filenames, j + 1)

\* _utils.py:22-43: the exception raised, NoneStr when there is none, and
\* the dict returned
load_product_lists(filenames) ==
    LET loaded == LoadFiles(EmptyDict, filenames, 1)
        data == loaded.data
    IN  [raised |-> loaded.raised,
         value |-> IF loaded.raised # NoneStr THEN EmptyDict
                   ELSE [key \in DOMAIN data |->
                            unique([j \in 1..Len(data[key]) |->
                                       StripExtensions(data[key][j])])]]

\* tests/test__utils.py:28-267: text files and JSON files of products; array
\* holds the elements of a JSON file that is a list
ProductFiles ==
    { [name |-> "l1.txt", lines |-> <<"p1.zip", "", "# c", " p2.SAFE ">>,
       items |-> <<>>, array |-> <<>>],
      [name |-> "l2.txt", lines |-> <<"p2", "p3">>, items |-> <<>>,
       array |-> <<>>],
      [name |-> "l3.txt", lines |-> <<" #p9">>, items |-> <<>>, array |-> <<>>],
      [name |-> "j1.json", lines |-> <<>>,
       items |-> << <<"", <<"p4.zip">> >>, <<"a", <<"p1", "p1.zip">> >> >>,
       array |-> <<>>],
      [name |-> "j2.json", lines |-> <<>>,
       items |-> << <<"a", <<"p5.SAFE">> >> >>, array |-> <<>>] }

\* cli.py:173: JSON files that contain a list of products
ListFiles ==
    { [name |-> "a1.json", lines |-> <<>>, items |-> <<>>,
       array |-> <<"S1A.zip", "S1B">>],
      [name |-> "a2.json", lines |-> <<>>, items |-> <<>>,
       array |-> <<"p1", "p2">>] }

\* the record of a call of load_product_lists
LoadCall(filenames) ==
    [op |-> "load_product_lists", filenames |-> filenames,
     raised |-> load_product_lists(filenames).raised,
     value |-> load_product_lists(filenames).value]

\* load_product_lists(*filenames)
CallLoadProductLists ==
    /\ pc = "idle"
    /\ \E filenames \in SeqUpTo(ProductFiles, MaxFiles) :
         log' = Append(log, LoadCall(filenames))
    /\ run' = run + 1
    /\ pc' = "returned"
    /\ UNCHANGED << pats, components >>
    /\ FnFrame

\* cli.py:75: load_product_lists(*inputs), JSON files that are lists among
\* the inputs
CallLoadJsonLists ==
    /\ pc = "idle"
    /\ \E filenames \in SeqUpTo(ProductFiles \cup ListFiles, MaxFiles) :
         log' = Append(log, LoadCall(filenames))
    /\ run' = run + 1
    /\ pc' = "returned"
    /\ UNCHANGED << pats, components >>
    /\ FnFrame

JsonNext ==
    \/ CallLoadJsonLists

JsonSpec == FnInit /\ [][JsonNext]_vars

ListsNext ==
    \/ CallLoadProductLists

ListsSpec == FnInit /\ [][ListsNext]_vars

(***************************************************************************)
(* Vocabulary of the properties.                                           *)
(***************************************************************************)
IsTrue(r) == ~r.raised /\ r.value
IsFalse(r) == ~r.raised /\ ~r.value

\* the patterns download_components_from_urls filters the archive with
DownloadPatterns(pl) == IF pl = NonePatterns THEN DefaultPatterns ELSE pl

\* the manifest of the product at path can be read, and the elements it holds
Readable(ds, fs, path) ==
    /\ IsDir(ds, path)
    /\ IsFile(fs, Append(path, "manifest.safe"))
    /\ WellFormed(fs[Append(path, "manifest.safe")])

Declared(fs, path) == Range(ByteStreams(fs[Append(path, "manifest.safe")]))

\* every element of the manifest carries the four values the check reads
ValidManifest(ds, fs, path) ==
    /\ Readable(ds, fs, path)
    /\ \A elem \in Declared(fs, path) :
         DOMAIN elem = {"href", "size", "checksumName", "checksum"}

\* the object the element declares
ObjectPath(path, elem) == JoinPath(path, Parts(elem.href))

\* the object is selected by one of the patterns the check works with when
\* it is given pl
Selected(path, elem, pl) ==
    \E j \in 1..Len(EffectivePatterns(pl)) :
        PathMatch(<<BaseName(path)>> \o Parts(elem.href), EffectivePatterns(pl)[j])

\* the object is on disk with the declared size and the declared digest
Intact(fs, path, elem) ==
    /\ "size" \in DOMAIN elem
    /\ "checksum" \in DOMAIN elem
    /\ IsFile(fs, ObjectPath(path, elem))
    /\ Len(fs[ObjectPath(path, elem)]) = elem.size
    /\ Md5Hex(<<fs[ObjectPath(path, elem)]>>) = elem.checksum

NameIsMd5(elem) ==
    "checksumName" \in DOMAIN elem /\ StrUpper(elem.checksumName) = "MD5"

\* a product directory with a valid manifest whose selected objects are all
\* intact, their digests declared as MD5
LocallyComplete(ds, fs, path, pl) ==
    /\ ValidManifest(ds, fs, path)
    /\ \A elem \in Declared(fs, path) :
         Selected(path, elem, pl) => Intact(fs, path, elem) /\ NameIsMd5(elem)

\* the members of the archive behind url that the patterns pl ask for
Asked(url, pl) ==
    {m \in Range(Members(url)) :
        \E j \in 1..Len(DownloadPatterns(pl)) :
            Glob(m.filename, DownloadPatterns(pl)[j])}

\* where a member of an archive is extracted to
Destination(m) == JoinPath(OutDir, Parts(m.filename))

\* every member asked for is on disk with the bytes of the archive
FullyExtracted(fs, url, pl) ==
    \A m \in Asked(url, pl) :
        IsFile(fs, Destination(m)) /\ fs[Destination(m)] = m.data

\* the events of l that are about url number j
About(l, j) == SelectSeq(l, LAMBDA e : e.i = j)

HasOp(l, op) == \E e \in 1..Len(l) : l[e].op = op

(***************************************************************************)
(* Properties of download_components_from_urls, stated of Spec.            *)
(***************************************************************************)
\* in the log of a call, an archive is opened only right after the check of
\* the same url returned false, and a url whose check returned true has no
\* other event
CheckedBeforeOpened ==
    \A e \in 1..Len(log) :
        /\ log[e].op = "open" =>
              /\ e > 1
              /\ log[e - 1] = [op |-> "check", i |-> log[e].i, raised |-> FALSE,
                               value |-> FALSE]
        /\ (log[e].op = "check" /\ ~log[e].raised /\ log[e].value) =>
              About(log, log[e].i) = <<log[e]>>

\* a step taken where the local product of the current url is complete goes
\* to the next url and touches neither the file system nor an archive; a step
\* that changes the file system belongs to a url whose check returned false
SkipsWhenComplete ==
    /\ ( /\ pc = "loop"
         /\ i <= Len(urls)
         /\ IsTrue(_is_product_complete(dirs, files, ProductOutPath(urls[i]),
                                        pats, block_size)) )
       => ( /\ dirs' = dirs
            /\ files' = files
            /\ pc' = "loop"
            /\ i' = i + 1
            /\ zfOpen' = zfOpen
            /\ ~HasOp(About(log', i), "open") )
    /\ (dirs' # dirs \/ files' # files)
       => ( /\ pc \in {"entry", "copy"}
            /\ zfOpen
            /\ IsFalse(result) )

\* C1: for every url the completeness check is evaluated before any archive
\* is opened for that url, and whenever the check returns true the url is
\* skipped: no archive is opened for it and no file or directory is created
\* or modified for it.
C1_SkipWhenComplete == []CheckedBeforeOpened /\ [][SkipsWhenComplete]_vars

\* a call that skipped one url and opened the archive of another is over
C1_Witness ==
    /\ pc = "done"
    /\ \E e \in 1..Len(log) : log[e].op = "check" /\ log[e].value
    /\ HasOp(log, "open")

\* every product of the call was, when the call started, locally complete
\* and held every member the call asks for
ExtractedBefore ==
    \A j \in 1..Len(urls) :
        /\ LocallyComplete(dirs0, files0, ProductOutPath(urls[j]), patterns)
        /\ FullyExtracted(files0, urls[j], patterns)

\* C2: a call made with the same urls, patterns and outdir against products
\* that are already fully extracted under a valid manifest opens no archive,
\* ends without an error and leaves the output tree as it found it.
C2_SecondRunIdle ==
    (HasOp(log, "open") \/ dirs # dirs0 \/ files # files0 \/ pc = "error")
        => ~ExtractedBefore

\* a second call on what the first call extracted is over
C2_Witness ==
    /\ run = 2
    /\ pc = "done"
    /\ files0 # EmptyMap
    /\ HasOp(log, "check")
    /\ ExtractedBefore

\* the files the call found keep their content, and only an entry whose file
\* this call created is read from the archive
KeepsFoundFiles ==
    /\ \A p \in DOMAIN files0 : p \in DOMAIN files /\ files[p] = files0[p]
    /\ \A e \in 1..Len(log) :
          log[e].op = "read" =>
              \E f \in 1..(e - 1) :
                  log[f] = [op |-> "create", i |-> log[e].i, k |-> log[e].k]

\* an entry whose destination exists is passed over: the step to the next
\* entry leaves every file alone and opens nothing
SkipsExisting ==
    ( /\ pc = "entry"
      /\ k <= Len(components)
      /\ Exists(dirs, files, OutFile(components[k])) )
    => ( /\ files' = files
         /\ pc' = "entry"
         /\ k' = k + 1
         /\ log' = Append(log, [op |-> "skip", i |-> i, k |-> k]) )

\* C3: an entry whose destination path exists, with whatever content, is
\* skipped: the existing file is left as it is and none of the entry's
\* payload is read.
C3_NeverOverwrites == []KeepsFoundFiles /\ [][SkipsExisting]_vars

\* a call that passed over a file whose bytes are not those of the archive
C3_Witness ==
    /\ pc = "done"
    /\ HasOp(log, "skip")
    /\ IsFile(files0, JoinPath(ProductA, Parts(AnnA)))
    /\ files[JoinPath(ProductA, Parts(AnnA))] # Payload(size)
    /\ UrlA \in Range(urls)

\* the destinations of the members the call asks for
Expected == UNION { {Destination(m) : m \in Asked(urls[j], patterns)} :
                    j \in 1..Len(urls) }

\* C4: a call that starts from an empty output tree and ends without an
\* error leaves exactly one file per archive entry whose name matches one of
\* the patterns, and no other file; with the default patterns these are the
\* manifest and the annotation files of the product, not its measurements.
C4_ExactlyTheMatches ==
    (pc = "done" /\ dirs0 = {} /\ files0 = EmptyMap)
    => ( /\ DOMAIN files = Expected
         /\ (patterns = NonePatterns /\ UrlA \in Range(urls))
            => ( /\ IsFile(files, Append(ProductA, "manifest.safe"))
                 /\ IsFile(files, JoinPath(ProductA, Parts(AnnA)))
                 /\ ~IsFile(files, JoinPath(ProductA, Parts(MeasA))) ) )

\* a call from an empty tree extracted both products with the default
\* patterns
C4_Witness ==
    /\ pc = "done"
    /\ files0 = EmptyMap
    /\ patterns = NonePatterns
    /\ Len(urls) = 2
    /\ Cardinality(DOMAIN files) = 4

\* the number of reads that copy n bytes
ReadsFor(n) == (n + block_size - 1) \div block_size + 1

\* a turn of the copy loop appends the next block of the entry, at most
\* block_size bytes long, and the loop ends at the first empty read, once the
\* file holds the bytes of the entry, all of them and in order
CopiesInBlocks ==
    pc = "copy" =>
        LET outfile == OutFile(components[k])
            data == Data(urls[i], components[k])
            reads == SelectSeq(log', LAMBDA e : e.op = "read" /\ e.i = i /\ e.k = k)
        IN  /\ files[outfile] = SubSeq(data, 1, pos)
            /\ pc' = "copy" =>
                  /\ pos' - pos \in 1..block_size
                  /\ files'[outfile] = SubSeq(data, 1, pos')
                  /\ reads[Len(reads)].n = pos' - pos
            /\ pc' = "entry" =>
                  /\ files'[outfile] = data
                  /\ Len(reads) = ReadsFor(Len(data))
                  /\ reads[Len(reads)].n = 0
                  /\ \A e \in 1..(Len(reads) - 1) : reads[e].n > 0

\* C5: for a positive block_size and an entry of any size, zero and sizes
\* that are no multiple of block_size included, _download writes the bytes
\* of the entry to the destination, all of them and in order, in blocks of
\* at most block_size bytes, and stops at the first empty read.
C5_CopiesInBlocks == [][CopiesInBlocks]_vars

\* an entry of three bytes was copied with a block_size of two
C5_Witness ==
    /\ pc = "entry"
    /\ block_size = 2
    /\ Len(log) >= 3
    /\ log[Len(log)].op = "read" /\ log[Len(log)].n = 0
    /\ log[Len(log) - 1].op = "read" /\ log[Len(log) - 1].n = 1
    /\ log[Len(log) - 2].op = "read" /\ log[Len(log) - 2].n = 2

(***************************************************************************)
(* Properties of _is_product_complete, stated of CheckSpec.  In a state    *)
(* with pc = "returned", result is what the check returned for the tree    *)
(* of the state.                                                           *)
(***************************************************************************)
ManifestA_path == Append(ProductA, "manifest.safe")
AnnA_path == JoinPath(ProductA, Parts(AnnA))
MeasA_path == JoinPath(ProductA, Parts(MeasA))

\* C6: _is_product_complete returns true only if every object the manifest
\* declares and the patterns select exists on disk with the declared size
\* and an MD5 digest equal to the declared checksum; a selected object that
\* is missing, of another size, or of the same size with other bytes makes
\* the result false.
C6_TrueOnlyIfIntact ==
    pc = "returned" =>
        /\ IsTrue(result) =>
              /\ Readable(dirs, files, ProductA)
              /\ \A elem \in Declared(files, ProductA) :
                    Selected(ProductA, elem, patterns)
                        => Intact(files, ProductA, elem)
        /\ ( /\ ValidManifest(dirs, files, ProductA)
             /\ \E elem \in Declared(files, ProductA) :
                   /\ Selected(ProductA, elem, patterns)
                   /\ ~Intact(files, ProductA, elem) )
           => IsFalse(result)

\* a product was found complete, a byte of its annotation file was changed,
\* and the product was found incomplete
C6_Witness ==
    /\ pc = "returned"
    /\ Len(log) = 3
    /\ log[1].value
    /\ log[2] = [op |-> "corrupt", path |-> AnnA_path]
    /\ size > 0
    /\ IsFalse(result)

\* the last call followed the cut, to half its length, of a selected object
\* of a complete product, the object declared with least bytes or more
AfterCut(least) ==
    /\ pc = "returned"
    /\ Len(log) >= 3
    /\ log[Len(log) - 1].op = "truncate"
    /\ LocallyComplete(dirs0, files0, ProductA, patterns)
    /\ \E elem \in Declared(files0, ProductA) :
          /\ Selected(ProductA, elem, patterns)
          /\ ObjectPath(ProductA, elem) = log[Len(log) - 1].path
          /\ elem.size >= least

\* a complete product is found complete
CompleteIsTrue ==
    (pc = "returned" /\ LocallyComplete(dirs, files, ProductA, patterns))
        => IsTrue(result)

\* C7 as it is written: a directory with a valid manifest and every selected
\* file present with the declared size and MD5 digest is found complete, and
\* cutting one selected file to half its declared size makes the check
\* return false.
C7_AnyCutIsFalse == CompleteIsTrue /\ (AfterCut(0) => IsFalse(result))

\* C7: a directory with a valid manifest and every selected file present
\* with the declared size and MD5 digest is found complete, and cutting one
\* selected file of at least one byte to half its declared size makes the
\* check return false.
C7_CutIsFalse == CompleteIsTrue /\ (AfterCut(1) => IsFalse(result))

\* the annotation file of a complete product was cut to one byte
C7_Witness ==
    /\ AfterCut(1)
    /\ log[Len(log) - 1].path = AnnA_path
    /\ Len(files[AnnA_path]) = 1
    /\ IsFalse(result)

\* C8: when the product directory or its manifest.safe does not exist,
\* _is_product_complete returns false at once, whatever the patterns, and
\* reads no file.
C8_FalseWithoutReading ==
    ( /\ pc = "returned"
      /\ ~IsDir(dirs, ProductA) \/ ~IsFile(files, ManifestA_path) )
    => result = Return(FALSE, <<>>)

\* the check returned for a product directory that holds an annotation file
\* and no manifest
C8_Witness ==
    /\ pc = "returned"
    /\ IsDir(dirs, ProductA)
    /\ ~IsFile(files, ManifestA_path)
    /\ IsFile(files, AnnA_path)
    /\ result = Return(FALSE, <<>>)

Redeclare(manifest, href, field, value) ==
    [j \in 1..Len(manifest) |->
        IF IsByteStream(manifest[j]) /\ "href" \in DOMAIN manifest[j]
           /\ manifest[j].href = href /\ field \in DOMAIN manifest[j]
        THEN [manifest[j] EXCEPT ![field] = value]
        ELSE manifest[j]]

\* the trees that differ from fs in one object that the patterns do not
\* select: in its presence, its size, its content, or its declared checksum
\* or size
Variations(fs, pl) ==
    UNION {
        LET p == ObjectPath(ProductA, elem)
            others == [q \in DOMAIN fs \ {p} |-> fs[q]]
            manifest == fs[ManifestA_path]
        IN  { others,
              (p :> <<>>) @@ others,
              (p :> <<Byte(5)>>) @@ others,
              (p :> Corrupted(MeasData)) @@ others,
              [fs EXCEPT ![ManifestA_path] =
                  Redeclare(manifest, elem.href, "checksum", Md5Hex(<<>>))],
              [fs EXCEPT ![ManifestA_path] =
                  Redeclare(manifest, elem.href, "size", MaxLen + 1)] }
        : elem \in {e \in Declared(fs, ProductA) :
                       "href" \in DOMAIN e /\ ~Selected(ProductA, e, pl)} }

\* C10: the result of _is_product_complete does not depend on the objects
\* that none of the effective patterns selects: trees that differ only in
\* the presence, size, content or declared checksum of such objects give the
\* same result.
C10_UnselectedIrrelevant ==
    (pc = "returned" /\ Readable(dirs, files, ProductA))
    => \A fs \in Variations(files, patterns) :
          LET other == _is_product_complete(dirs, fs, ProductA, patterns,
                                            block_size)
          IN  other.raised = result.raised /\ other.value = result.value

\* a product was found complete with the annotation pattern alone while its
\* measurement file, declared in the manifest, is not on disk
C10_Witness ==
    /\ pc = "returned"
    /\ IsTrue(result)
    /\ patterns = <<"S1*.SAFE/annotation/*.xml">>
    /\ ~IsFile(files, MeasA_path)
    /\ \E elem \in Declared(files, ProductA) : ObjectPath(ProductA, elem) = MeasA_path
    /\ Cardinality(Variations(files, patterns)) > 1

\* the positions of filelist whose filename matches at least one pattern
Matching(filelist, ps) ==
    {j \in 1..Len(filelist) :
        \E q \in 1..Len(ps) : Glob(filelist[j].filename, ps[q])}

\* the calls of a function recorded in the log
CallsOf(op) == {e \in Range(log) : e.op = op}

\* C11: _filter_components returns exactly the subsequence of zf.filelist
\* whose filename matches at least one pattern: every entry returned is an
\* entry of the list that matches, every matching entry is returned, the
\* entries come in the order of the list and none comes twice, and nothing
\* is returned when there is no pattern.
C11_FilterIsMatchingSubsequence ==
    \A e \in CallsOf("_filter_components") :
        /\ \A n \in 1..Len(e.value) :
              /\ e.value[n].index \in Matching(e.filelist, e.patterns)
              /\ e.value[n] = e.filelist[e.value[n].index]
        /\ \A j \in Matching(e.filelist, e.patterns) :
              \E n \in 1..Len(e.value) : e.value[n] = e.filelist[j]
        /\ \A n \in 1..(Len(e.value) - 1) : e.value[n].index < e.value[n + 1].index
        /\ e.patterns = <<>> => e.value = <<>>

\* a list of three entries was filtered with two patterns: the first entry
\* matches none, the second matches both, the third matches the second only
C11_Witness ==
    \E e \in CallsOf("_filter_components") :
        /\ e.patterns = <<"abc.*", "*.txt">>
        /\ Len(e.filelist) = 3
        /\ e.filelist[1].filename = "def.dat"
        /\ e.filelist[2].filename = "abc.txt"
        /\ e.filelist[3].filename = "a/abc.txt"
        /\ e.value = <<e.filelist[2], e.filelist[3]>>

ManifestPattern == "S1*.SAFE/manifest.safe"
AnyAnnotationPattern == "S1*.SAFE/annotation/s1?-*-???-??-*.xml"

\* the argument is left out (the default of the signature) or None
Unset(v, default) == v = default \/ v = NoneStr

\* no flag is set
NoFlags(e) == ~e.cal /\ ~e.noise /\ ~e.rfi /\ ~e.data

\* s contains sub
Contains(s, sub) == Find(s, sub, 1) > 0

\* C12: make_patterns with beam and pol left out or None and no flag set
\* returns the manifest pattern followed by the annotation pattern of every
\* beam and every polarisation, and nothing else.
C12_NoFiltersTwoPatterns ==
    \A e \in CallsOf("make_patterns") :
        (Unset(e.beam, "*") /\ Unset(e.pol, "??") /\ NoFlags(e))
        => e.value = <<ManifestPattern, AnyAnnotationPattern>>

\* make_patterns was called with beam = None and pol = None and no flag
C12_Witness ==
    \E e \in CallsOf("make_patterns") :
        /\ e.beam = NoneStr
        /\ e.pol = NoneStr
        /\ NoFlags(e)
        /\ Len(e.value) = 2

\* the path segment that tells the pattern of a flag apart
Segment(flag) ==
    CASE flag = "cal" -> "calibration/calibration-"
      [] flag = "noise" -> "calibration/noise-"
      [] flag = "rfi" -> "rfi/rfi-"

\* the flags set in a call, among cal, noise and rfi
ExtraFlags(e) ==
    {f \in {"cal", "noise", "rfi"} :
        \/ f = "cal" /\ e.cal
        \/ f = "noise" /\ e.noise
        \/ f = "rfi" /\ e.rfi}

\* C13: with one of cal, noise, rfi set and nothing else given, make_patterns
\* returns three patterns: the manifest pattern, the annotation pattern of
\* every beam and polarisation, and one more pattern, which contains the
\* path segment of the flag.
C13_OneFlagOneExtraPattern ==
    \A e \in CallsOf("make_patterns") :
        \A f \in {"cal", "noise", "rfi"} :
            (Unset(e.beam, "*") /\ Unset(e.pol, "??") /\ ~e.data
               /\ ExtraFlags(e) = {f})
            => /\ Len(e.value) = 3
               /\ \E a, b, c \in 1..3 :
                     /\ {a, b, c} = 1..3
                     /\ e.value[a] = ManifestPattern
                     /\ e.value[b] = AnyAnnotationPattern
                     /\ Contains(e.value[c], Segment(f))
                     /\ e.value[c] \notin {ManifestPattern, AnyAnnotationPattern}

\* make_patterns was called with noise set and nothing else given
C13_Witness ==
    \E e \in CallsOf("make_patterns") :
        /\ e.beam = "*"
        /\ e.pol = "??"
        /\ ~e.data
        /\ ExtraFlags(e) = {"noise"}
        /\ Len(e.value) = 3
        /\ Contains(e.value[3], "calibration/noise-")

\* the arguments of a call of make_patterns
Arguments(e) == <<e.beam, e.pol, e.cal, e.noise, e.rfi, e.data>>

\* C14: whatever beam, pol and flags are given, the list make_patterns
\* returns holds the manifest pattern exactly once and no pattern twice,
\* and two calls with the same arguments return the same list.
C14_ManifestOnceNoDuplicate ==
    \A e \in CallsOf("make_patterns") :
        /\ Cardinality({n \in 1..Len(e.value) : e.value[n] = ManifestPattern}) = 1
        /\ \A m, n \in 1..Len(e.value) : e.value[m] = e.value[n] => m = n
        /\ \A d \in CallsOf("make_patterns") :
              Arguments(d) = Arguments(e) => d.value = e.value

\* make_patterns was called twice with a beam, a polarisation and every
\* flag set
C14_Witness ==
    /\ Len(log) = 2
    /\ log[1].op = "make_patterns"
    /\ log[2].op = "make_patterns"
    /\ Arguments(log[1]) = <<"iw1", "vv", TRUE, TRUE, TRUE, TRUE>>
    /\ Arguments(log[2]) = Arguments(log[1])
    /\ Len(log[2].value) = 7

\* what make_patterns puts in the patterns for an argument
Given(v, default) == IF v = NoneStr THEN default ELSE v

\* C15: every pattern make_patterns returns, the manifest pattern excepted,
\* contains the given beam and the given polarisation (the wildcard for
\* None); with a beam alone or a polarisation alone two patterns are
\* returned; with data set more than two patterns are returned, one of them
\* a .tiff pattern under measurement.
C15_BeamAndPolEmbedded ==
    \A e \in CallsOf("make_patterns") :
        /\ \A n \in 1..Len(e.value) :
              e.value[n] # ManifestPattern
              => /\ Contains(e.value[n], "-" \o Given(e.beam, "*") \o "-")
                 /\ Contains(e.value[n], "-" \o Given(e.pol, "??") \o "-")
        /\ (NoFlags(e) /\ (Unset(e.beam, "*") \/ Unset(e.pol, "??")))
           => Len(e.value) = 2
        /\ e.data
           => /\ Len(e.value) > 2
              /\ \E n \in 1..Len(e.value) :
                    /\ Contains(e.value[n], "/measurement/")
                    /\ SubSeq(e.value[n], Len(e.value[n]) - 4, Len(e.value[n]))
                         = ".tiff"

\* make_patterns was called with a beam, a polarisation and data
C15_Witness ==
    \E e \in CallsOf("make_patterns") :
        /\ e.beam = "iw1"
        /\ e.pol = "vv"
        /\ e.data
        /\ ExtraFlags(e) = {}
        /\ e.value[3] = "S1*.SAFE/measurement/s1?-iw1-???-vv-*.tiff"

\* the response lets the file be read by ranges
Rangeable(resp) ==
    /\ ~IsErrorStatus(resp.status)
    /\ resp.content_length # NoneStr
    /\ resp.accept_ranges # NoneStr
    /\ StrLower(resp.accept_ranges) = "bytes"

\* C16: HttpIOFile.open returns only if the probe was answered with a
\* success status, a Content-Length and Accept-Ranges: bytes in any case;
\* when the content length or the byte ranges are missing it raises, the
\* file keeps no length, and no request other than the probe is made:
\* none with a Range header, none whose body is read.
C16_OpenOnlyIfRangeable ==
    /\ \A e \in CallsOf("open") :
         /\ (e.probed /\ e.raised = NoneStr) => Rangeable(e.response)
         /\ (e.probed /\ (e.response.content_length = NoneStr
                            \/ e.response.accept_ranges = NoneStr
                            \/ StrLower(e.response.accept_ranges) # "bytes"))
            => e.raised # NoneStr /\ e.length = <<>>
    /\ \A e \in CallsOf("GET") : ~e.range /\ ~e.body
    /\ Cardinality({n \in 1..Len(log) : log[n].op = "GET"})
         <= Cardinality({n \in 1..Len(log) : log[n].op = "open" /\ log[n].probed})

(***************************************************************************)
(* Properties of download_components_from_urls over a failing network,     *)
(* stated of FailSpec.                                                     *)
(***************************************************************************)
\* the members of the archive behind url that the patterns pl ask for, in
\* the order of the archive
AskedInOrder(url, pl) ==
    SelectSeq(Members(url),
              LAMBDA m : \E j \in 1..Len(DownloadPatterns(pl)) :
                             Glob(m.filename, DownloadPatterns(pl)[j]))

\* the number of events of the log with this op about url number j
Count(op, j) == Cardinality({n \in 1..Len(log) : log[n].op = op /\ log[n].i = j})

\* C17: an error raised while an archive is opened, or an entry of it is
\* opened or copied, for url number k ends the call with that error: the
\* failure is the last thing the call did, no later url was checked or
\* opened, url k was checked and opened once at most, and the files written
\* in full before, for the earlier urls and for the earlier entries of url
\* k, are on disk with the bytes of the archive.
C17_ErrorsPropagate ==
    \A n \in 1..Len(log) :
        log[n].op = "fail"
        => /\ n = Len(log)
           /\ pc = "error"
           /\ \A m \in 1..Len(log) : log[m].i <= log[n].i
           /\ Count("check", log[n].i) = 1
           /\ Count("open", log[n].i) <= 1
           /\ \A j \in 1..(log[n].i - 1) : FullyExtracted(files, urls[j], patterns)
           /\ \A q \in 1..(log[n].k - 1) :
                 LET m == AskedInOrder(urls[log[n].i], patterns)[q]
                 IN  IsFile(files, Destination(m)) /\ files[Destination(m)] = m.data

\* the read of the second entry of the second url failed after all that
\* comes before it was written
C17_Witness ==
    /\ pc = "error"
    /\ log[Len(log)] = [op |-> "fail", at |-> "read", i |-> 2, k |-> 2]
    /\ urls = <<UrlB, UrlA>>
    /\ FullyExtracted(files, UrlB, patterns)
    /\ IsFile(files, Destination(AskedInOrder(UrlA, patterns)[1]))
    /\ IsFile(files, Destination(AskedInOrder(UrlA, patterns)[2]))
    /\ files[Destination(AskedInOrder(UrlA, patterns)[2])]
         # AskedInOrder(UrlA, patterns)[2].data

\* C18: when download_components_from_urls has returned or raised, with
\* whatever client implementation, no archive handle is open and the
\* network session of the client is released.
C18_AllReleasedOnExit ==
    pc \in {"done", "error"} => ~zfOpen /\ ~sessionOpen

(***************************************************************************)
(* Properties of load_product_lists, stated of ListsSpec.                  *)
(***************************************************************************)
\* the products a file lists under a key, as written in the file
Listed(f, key) ==
    IF Suffix(f.name) = ".json"
    THEN Concat([j \in 1..Len(f.items) |->
                    IF f.items[j][1] = key THEN f.items[j][2] ELSE <<>>])
    ELSE IF key = "" THEN ProductLines(f.lines) ELSE <<>>

\* the keys a file has
KeysOf(f) ==
    IF Suffix(f.name) = ".json" THEN {f.items[j][1] : j \in 1..Len(f.items)}
    ELSE IF ProductLines(f.lines) = <<>> THEN {} ELSE {""}

\* C20: load_product_lists returns, for every key of an input file, the
\* products listed under the key in any of the files, their extensions
\* removed, once each and in the order they first come; the lines of a text
\* file count under the key "".  No listed product is missing, whatever the
\* number and the order of the files.
C20_NoProductMissing ==
    \A e \in CallsOf("load_product_lists") :
        /\ DOMAIN e.value = UNION {KeysOf(e.filenames[n]) : n \in 1..Len(e.filenames)}
        /\ \A key \in DOMAIN e.value :
              LET all == Concat([n \in 1..Len(e.filenames) |->
                                    Listed(e.filenames[n], key)])
              IN  e.value[key]
                    = unique([j \in 1..Len(all) |-> StripExtensions(all[j])])

\* the products a file gives for a key: those of Listed, and under "" the
\* elements of a JSON file that is a list
Products(f, key) ==
    Listed(f, key) \o (IF key = "" /\ Suffix(f.name) = ".json" THEN f.array
                       ELSE <<>>)

\* C21: load_product_lists takes a JSON file that holds a list of products
\* as well as one that holds a dictionary: it raises for no input, and what
\* it returns for one file has the products of a list under the key "" and
\* the products of a dictionary under their keys.
C21_JsonListOrDict ==
    \A e \in CallsOf("load_product_lists") :
        /\ e.raised = NoneStr
        /\ Len(e.filenames) = 1
           => \A key \in KeysOf(e.filenames[1])
                       \cup (IF e.filenames[1].array # <<>> THEN {""} ELSE {}) :
                 /\ key \in DOMAIN e.value
                 /\ e.value[key]
                      = unique([j \in 1..Len(Products(e.filenames[1], key)) |->
                                  StripExtensions(Products(e.filenames[1], key)[j])])

(***************************************************************************)
(* The order of the steps of download_components_from_urls, stated of      *)
(* Spec.                                                                   *)
(***************************************************************************)
\* the archives open after the first n events of the log: an archive is
\* closed when its entries are exhausted and when the call raises in it
OpenAfter(n) ==
    Cardinality({m \in 1..n : log[m].op = "open"})
    - Cardinality({m \in 1..n : log[m].op \in {"close", "raise"}})

\* the events about an entry
EntryOps == {"create", "skip", "read", "raise"}

\* C22: download_components_from_urls works on one thing at a time: never
\* more than one archive is open, the check of a url starts when no archive
\* is open, the urls are handled in the order given, the entries selected
\* are in the order of the filelist and are handled one by one in that
\* order, an entry being looked at only when the entry before it was
\* skipped or copied to its end.
C22_StrictlySequential ==
    /\ \A n \in 0..Len(log) : OpenAfter(n) \in {0, 1}
    /\ zfOpen <=> OpenAfter(Len(log)) = 1
    /\ \A n \in 1..Len(log) :
         /\ \A m \in 1..(n - 1) : log[m].i <= log[n].i
         /\ log[n].op = "check" => OpenAfter(n - 1) = 0
         /\ log[n].op \in EntryOps => OpenAfter(n - 1) = 1
         /\ log[n].op \in {"create", "skip", "raise"}
            => \/ log[n - 1].op = "open" /\ log[n].k = 1
               \/ /\ log[n - 1].op = "skip"
                  /\ log[n - 1].k = log[n].k - 1
               \/ /\ log[n - 1].op = "read"
                  /\ log[n - 1].k = log[n].k - 1
                  /\ log[n - 1].n = 0
         /\ log[n].op = "read"
            => /\ log[n - 1].op \in {"create", "read"}
               /\ log[n - 1].k = log[n].k
               /\ log[n - 1].op = "read" => log[n - 1].n > 0
    /\ \A a, b \in 1..Len(components) :
         a < b => components[a].index < components[b].index

\* two archives were opened and closed one after the other, two entries of
\* the second copied
C22_Witness ==
    /\ pc = "loop"
    /\ Cardinality({n \in 1..Len(log) : log[n].op = "open"}) = 2
    /\ Cardinality({n \in 1..Len(log) : log[n].op = "close"}) = 2
    /\ \E n \in 1..Len(log) : log[n] = [op |-> "read", i |-> 2, k |-> 2, n |-> 0]

(***************************************************************************)
(* Properties of repeated calls after an interrupted copy, stated of       *)
(* RetrySpec.                                                              *)
(***************************************************************************)
\* c is the beginning of d, and not all of it
ProperPrefix(c, d) == Len(c) < Len(d) /\ c = SubSeq(d, 1, Len(c))

\* the members asked for of the archive behind url whose file was cut short
\* when the current call started
CutAtStart(url) ==
    {m \in Asked(url, patterns) :
        /\ IsFile(files0, Destination(m))
        /\ ProperPrefix(files0[Destination(m)], m.data)}

\* the position of member m among the entries selected of the archive
EntryOf(url, m) ==
    CHOOSE q \in 1..Len(AskedInOrder(url, patterns)) :
        AskedInOrder(url, patterns)[q] = m

\* C23: a file that an interrupted copy left cut short is not repaired by a
\* later call with the same arguments: the check of its product returns
\* false, the archive is opened again, the file is skipped because it
\* exists and keeps its content, so the product is never found complete.
C23_TruncatedNeverRepaired ==
    \A j \in 1..Len(urls) :
        \A m \in CutAtStart(urls[j]) :
            /\ IsFile(files, Destination(m))
            /\ files[Destination(m)] = files0[Destination(m)]
            /\ \A n \in 1..Len(log) :
                  /\ (log[n].op = "check" /\ log[n].i = j)
                     => ~log[n].raised /\ ~log[n].value
                  /\ (log[n].op = "close" /\ log[n].i = j)
                     => \E q \in 1..(n - 1) :
                           log[q] = [op |-> "skip", i |-> j,
                                     k |-> EntryOf(urls[j], m)]
            /\ (pc = "done" \/ i > j) => HasOp(About(log, j), "close")
\* the call just passed over a url: the last thing it did is a check that
\* returned True
JustSkipped ==
    /\ log # <<>>
    /\ log[Len(log)].op = "check"
    /\ IsTrue(log[Len(log)])

\* C24: when a url is passed over because the check of its local product
\* returned True, every entry of its archive that the filter selects with
\* the same patterns is a file below the output directory.
C24_SkipIsSafe ==
    JustSkipped =>
        \A m \in Asked(urls[log[Len(log)].i], patterns) :
            IsFile(files, Destination(m))
\* the manifest among the members of the archive behind url
ManifestOf(url) ==
    CHOOSE m \in Range(Members(url)) : BaseName(Parts(m.filename)) = "manifest.safe"

\* the patterns of the call select the manifest of every url
SelectsManifest == \A j \in 1..Len(urls) : ManifestOf(urls[j]) \in Asked(urls[j], patterns)

\* the directory the check looks at is the one the entries are extracted into
SameDirectory ==
    \A j \in 1..Len(urls) :
        ProductOutPath(urls[j]) = Parent(Destination(ManifestOf(urls[j])))

\* every object that the check selects is declared with an MD5 digest
SelectedAreMd5 ==
    \A j \in 1..Len(urls) :
        \A elem \in Range(ByteStreams(ManifestOf(urls[j]).data)) :
            Selected(Parent(Destination(ManifestOf(urls[j]))), elem, patterns)
                => NameIsMd5(elem)

C26_SamePatternsBothSides ==
    pc # "start" => EffectivePatterns(pats) = pats
\* C27: _is_product_complete returns a boolean for every state of the local
\* directory and never raises; on a manifest that is cut short or not
\* well-formed, or whose selected element lacks its size, it returns False.
C27_CheckNeverRaises ==
    pc = "returned" => ~result.raised
\* C28: an open of an HttpIOFile that raised leaves the file not opened, its
\* session unset and its length unknown, and an open made after it probes
\* the server again, so that it returns only if the probe is answered well.
C28_FailedOpenLeavesUnopened ==
    \A n \in 1..Len(log) :
        (log[n].op = "open" /\ log[n].raised # NoneStr) =>
            /\ n = Len(log) => NewFile
            /\ \A m \in (n + 1)..Len(log) :
                  log[m].op = "open" =>
                      /\ log[m].probed
                      /\ log[m].raised = NoneStr => Rangeable(log[m].response)
\* the path the operating system resolves p to, there being no symbolic
\* link: a '..' component steps back to the parent directory
RECURSIVE Resolve(_, _)
Resolve(p, done) ==
    IF p = <<>> THEN done
    ELSE IF Head(p) = ".." /\ done # <<>> /\ done[Len(done)] \notin {"..", "/"}
         THEN Resolve(Tail(p), SubSeq(done, 1, Len(done) - 1))
    ELSE IF Head(p) = ".." /\ done = <<"/">> THEN Resolve(Tail(p), done)
    ELSE Resolve(Tail(p), Append(done, Head(p)))

\* q is base or lies below it
Within(base, q) == Len(q) >= Len(base) /\ SubSeq(q, 1, Len(base)) = base

\* C29: every file and every directory that the download creates lies
\* inside the output directory, whatever the names of the matching entries
\* are, names with '..' components and absolute names included.
C29_CreatedInsideRoot ==
    /\ \A p \in DOMAIN files \ DOMAIN files0 : Within(OutDir, Resolve(p, <<>>))
    /\ \A d \in dirs \ dirs0 :
          \/ Within(OutDir, Resolve(d, <<>>))
          \* a directory above the output directory, which was there before
          \/ Within(Resolve(d, <<>>), OutDir)
\* C30: for every block size, zero and the negative ones included, every
\* destination file that a call ending without error created holds the whole
\* content of its entry; a block size of zero leaves no empty file behind.
C30_AnyBlockSizeCopiesAll ==
    pc = "done" =>
        \A j \in 1..Len(urls) :
            \A m \in Range(Members(urls[j])) :
                Destination(m) \in DOMAIN files \ DOMAIN files0
                    => files[Destination(m)] = m.data
====







